---- MODULE Spec2Model ----
(***************************************************************************)
(* The wave-interference memory engine of Zero-Vector-7:                   *)
(*   HolographicMemorySystem  (fragment store, reconstruction, eviction),  *)
(*   InterferenceEngine       (pairwise scoring of the active waves),      *)
(*   HolographicWaveEngine    (propagation, decay, graceful degradation).  *)
(*                                                                         *)
(* Numbers.  JavaScript numbers are modelled in fixed point: a real x is   *)
(* the integer x * Unit (Unit = 10000).  Wave frequencies are kept in      *)
(* tenths (the static table holds one decimal), phases in hundredths of a  *)
(* radian (calculatePhase returns k/100), the clock in hours.  Math.cos,   *)
(* Math.sin and Math.exp are tables of the true values rounded to 1/Unit.  *)
(* Strings are sequences of character codes, so that split, includes,      *)
(* toLowerCase, substring, trim, JSON.stringify and the 32-bit string hash *)
(* are computed character by character as the code computes them.          *)
(***************************************************************************)
EXTENDS Integers, Sequences, FiniteSets, TLC

VARIABLES
  now,                  \* Date.now(), in hours
  config,               \* the HolographicConfig the engine was constructed with
  fragments,            \* HolographicMemorySystem.fragments (Map, insertion order)
  reconstructionCache,  \* HolographicMemorySystem.reconstructionCache (key -> text)
  activeWaves,          \* HolographicWaveEngine.activeWaves (Map, insertion order)
  activePatterns,       \* InterferenceEngine.activePatterns (Map, insertion order)
  emergentBehaviors,    \* InterferenceEngine.emergentBehaviors (Map, insertion order)
  localStorage,         \* the entries of localStorage['zv6_holographic_fragments']
  nextId,               \* the calls that made ids so far; an id is <<call, k>>
                        \* (the code's ids, time stamp and random suffix, are unique)
  ret                   \* the last call: its name, arguments and returned value

vars ==
  <<now, config, fragments, reconstructionCache, activeWaves, activePatterns, emergentBehaviors,
    localStorage, nextId, ret>>

Unit == 10 * 1000

----------------------------------------------------------------------------
(* Bounds of the model.                                                    *)

\* calls of storeFragment made directly on a store (SpecStore)
MaxStores == 3
\* calls of propagateHolographicWave on an engine (Spec)
MaxWaves == 2
\* the number of propagateHolographicWave calls in a series of propagations
MaxSeries == 3
\* clock ticks of 12 hours
MaxTicks == 1
\* records in the persisted object when the model starts
MaxPersisted == 2
\* waves handed to processWaveInterference (SpecInterference)
MaxSignals == 2
\* behaviors in the InterferenceEngine's emergentBehaviors up to which the
\* interference is processed again without a wave being propagated
MaxBehaviors == 2

----------------------------------------------------------------------------
(* Strings.                                                                *)

Min(a, b) == IF a <= b THEN a ELSE b
Max(a, b) == IF a >= b THEN a ELSE b
Abs(a) == IF a < 0 THEN -a ELSE a

\* ' ', the separator of split(' ') and of the reconstructed text
Space == 32

\* String.prototype.toLowerCase, on the ASCII letters
LowerChar(c) == IF c >= 65 /\ c <= 90 THEN c + 32 ELSE c
ToLowerCase(s) == [i \in 1..Len(s) |-> LowerChar(s[i])]

\* String.prototype.includes: needle occurs in hay (the empty string always does)
Includes(hay, needle) ==
  \E i \in 0..(Len(hay) - Len(needle)) :
     SubSeq(hay, i + 1, i + Len(needle)) = needle

\* String.prototype.substring(0, n)
Substring0(s, n) == SubSeq(s, 1, Min(n, Len(s)))

\* the k-th smallest element of a set of positions
Nth(positions, k) == CHOOSE i \in positions : Cardinality({j \in positions : j <= i}) = k

\* String.prototype.split(sep) for a one-character separator: "a  b" gives
\* <<"a", "", "b">> and "" gives <<"">>.  The k-th word lies between the
\* (k-1)-th and the k-th separator.
Split(s, sep) ==
  LET seps == {i \in 1..Len(s) : s[i] = sep}
      n == Cardinality(seps)
      After(k) == IF k = 0 THEN 1 ELSE Nth(seps, k) + 1
      Before(k) == IF k = n + 1 THEN Len(s) ELSE Nth(seps, k) - 1
  IN  SubSeq([k \in 1..(n + 1) |-> SubSeq(s, After(k - 1), Before(k))], 1, n + 1)

\* the white space of /\s+/ and of trim() among the characters of the model
IsWhite(c) == c \in {9, 10, 11, 12, 13, 32}

\* String.prototype.split(/\s+/): a separator is a maximal run of white space
SplitWhite(s) ==
  LET starts == {i \in 1..Len(s) : IsWhite(s[i]) /\ (i = 1 \/ ~IsWhite(s[i - 1]))}
      ends == {i \in 1..Len(s) : IsWhite(s[i]) /\ (i = Len(s) \/ ~IsWhite(s[i + 1]))}
      n == Cardinality(starts)
      After(k) == IF k = 0 THEN 1 ELSE Nth(ends, k) + 1
      Before(k) == IF k = n + 1 THEN Len(s) ELSE Nth(starts, k) - 1
  IN  SubSeq([k \in 1..(n + 1) |-> SubSeq(s, After(k - 1), Before(k))], 1, n + 1)

\* String.prototype.trim
RECURSIVE TrimLeft(_)
TrimLeft(s) == IF s # <<>> /\ IsWhite(Head(s)) THEN TrimLeft(Tail(s)) ELSE s
RECURSIVE TrimRight(_)
TrimRight(s) ==
  IF s # <<>> /\ IsWhite(s[Len(s)]) THEN TrimRight(SubSeq(s, 1, Len(s) - 1)) ELSE s
Trim(s) == TrimRight(TrimLeft(s))

\* Array.prototype.join(sep)
RECURSIVE Join(_, _)
Join(words, sep) ==
  IF words = <<>> THEN <<>>
  ELSE IF Len(words) = 1 THEN words[1]
  ELSE words[1] \o sep \o Join(Tail(words), sep)

\* Array.prototype.includes
Member(seq, x) == \E i \in 1..Len(seq) : seq[i] = x

\* Map.prototype.set on a Map kept as a sequence in insertion order: the entry
\* with the same key (the given field) is replaced in place, a new key is appended
SetBy(seq, x, field) ==
  IF \E i \in 1..Len(seq) : seq[i][field] = x[field]
  THEN [i \in 1..Len(seq) |-> IF seq[i][field] = x[field] THEN x ELSE seq[i]]
  ELSE Append(seq, x)

\* what a call returns or a field holds: a string, null, undefined, or a thrown
\* exception (for an async function, a rejected promise)
Text(s) == [kind |-> "text", text |-> s]
Null == [kind |-> "null", text |-> <<>>]
Undefined == [kind |-> "undefined", text |-> <<>>]
Thrown == [kind |-> "throws", text |-> <<>>]

----------------------------------------------------------------------------
(* JSON.stringify of a target context.  A context is one of                *)
(*   undefined    (JSON.stringify returns undefined),                      *)
(*   circular     (an object that refers to itself: JSON.stringify throws),*)
(*   null         (serialized as null),                                    *)
(*   an object {query: <string>} or {query: <string>, type: <wave type>}.  *)

\* JSON's quoting of a string: '"' and '\' are escaped (the strings of the
\* model hold no control characters)
RECURSIVE EscapeJson(_)
EscapeJson(s) ==
  IF s = <<>> THEN <<>>
  ELSE (IF Head(s) \in {34, 92} THEN <<92, Head(s)>> ELSE <<Head(s)>>)
       \o EscapeJson(Tail(s))
JsonString(s) == <<34>> \o EscapeJson(s) \o <<34>>

\* 'query'
KeyQuery ==
  <<113, 117, 101, 114, 121>>
\* 'type'
KeyType ==
  <<116, 121, 112, 101>>
\* 'null'
LitNull ==
  <<110, 117, 108, 108>>

\* 'MEMORY', 'INTENT', 'CONFIDENCE': the values of the WaveType enum are its names
WaveTypeName(wt) ==
  CASE wt = "MEMORY" -> <<77, 69, 77, 79, 82, 89>>
    [] wt = "INTENT" -> <<73, 78, 84, 69, 78, 84>>
    [] wt = "CONFIDENCE" -> <<67, 79, 78, 70, 73, 68, 69, 78, 67, 69>>
    [] wt = "CONTEXT" -> <<67, 79, 78, 84, 69, 88, 84>>
    [] wt = "TEMPORAL" -> <<84, 69, 77, 80, 79, 82, 65, 76>>
    [] wt = "PERSONA" -> <<80, 69, 82, 83, 79, 78, 65>>
    [] wt = "REASONING" -> <<82, 69, 65, 83, 79, 78, 73, 78, 71>>
    [] wt = "VISUAL" -> <<86, 73, 83, 85, 65, 76>>

\* JSON.stringify(targetContext): [kind |-> "string", text |-> ...], or
\* [kind |-> "undefined"], or [kind |-> "throws"]
JsonStringify(ctx) ==
  CASE ctx.kind = "undefined" -> [kind |-> "undefined", text |-> <<>>]
    [] ctx.kind = "circular" -> [kind |-> "throws", text |-> <<>>]
    [] ctx.kind = "null" -> [kind |-> "string", text |-> LitNull]
    [] ctx.kind = "object" ->
         [kind |-> "string",
          text |-> <<123>> \o JsonString(KeyQuery) \o <<58>> \o JsonString(ctx.query)
                   \o (IF ctx.type = "none" THEN <<>>
                       ELSE <<44>> \o JsonString(KeyType) \o <<58>>
                            \o JsonString(WaveTypeName(ctx.type)))
                   \o <<125>>]

----------------------------------------------------------------------------
(* The 32-bit string hash of calculatePhase.  A 32-bit value is kept as    *)
(* two 16-bit halves <<hi, lo>> (two's complement: hi >= 32768 is a        *)
(* negative int32), so that no intermediate value exceeds 32 bits.         *)

\* hash << 5, as an int32
ShiftLeft5(h) ==
  LET lo32 == h[2] * 32
  IN  <<(h[1] * 32 + (lo32 \div 65536)) % 65536, lo32 % 65536>>

\* ((hash << 5) - hash + charCode) & 0xffffffff, as an int32
HashStep(h, c) ==
  LET s == ShiftLeft5(h)
      low == s[2] - h[2] + c
  IN  <<(s[1] - h[1] + (low \div 65536)) % 65536, low % 65536>>

\* the loop of calculatePhase over str[lo..hi], entered with hash h; the range is
\* halved so that the evaluation stays shallow
RECURSIVE HashFrom(_, _, _, _)
HashFrom(str, lo, hi, h) ==
  IF lo > hi THEN h
  ELSE IF lo = hi THEN HashStep(h, str[lo])
  ELSE LET mid == (lo + hi) \div 2
           left == HashFrom(str, lo, mid, h)
       IN  IF left[1] < 0 THEN left ELSE HashFrom(str, mid + 1, hi, left)

\* the loop of calculatePhase over content + sourceRegion
StringHash(str) == HashFrom(str, 1, Len(str), <<0, 0>>)

IsNegative(h) == h[1] >= 32768

\* hash % 628 without Math.abs: the remainder takes the sign of the hash
SignedMod628(h) ==
  IF h[1] >= 32768
  THEN 0 - ((((65536 - h[1]) % 628) * 224 - h[2]) % 628)
  ELSE (h[1] * 65536 + h[2]) % 628

\* Math.abs(hash) % 628; for a negative hash |hash| = 2^32 - (hi * 2^16 + lo),
\* reduced modulo 628 half by half (2^16 % 628 = 224)
AbsMod628(h) ==
  IF IsNegative(h)
  THEN (((65536 - h[1]) % 628) * 224 - h[2]) % 628
  ELSE (h[1] * 65536 + h[2]) % 628

\* calculatePhase(content, sourceRegion), in hundredths of a radian:
\* (Math.abs(hash) % 628) / 100
calculatePhase(content, sourceRegion) == AbsMod628(StringHash(content \o sourceRegion))

----------------------------------------------------------------------------
(* Math.cos, Math.sin and Math.exp.                                        *)

\* cos(k / 100) * Unit for k = 0..627, at index k + 1
CosTable ==
  <<10000, 10000, 9998, 9996, 9992, 9988, 9982, 9976, 9968, 9960, 9950, 9940,
    9928, 9916, 9902, 9888, 9872, 9856, 9838, 9820, 9801, 9780, 9759, 9737,
    9713, 9689, 9664, 9638, 9611, 9582, 9553, 9523, 9492, 9460, 9428, 9394,
    9359, 9323, 9287, 9249, 9211, 9171, 9131, 9090, 9048, 9004, 8961, 8916,
    8870, 8823, 8776, 8727, 8678, 8628, 8577, 8525, 8473, 8419, 8365, 8309,
    8253, 8196, 8139, 8080, 8021, 7961, 7900, 7838, 7776, 7712, 7648, 7584,
    7518, 7452, 7385, 7317, 7248, 7179, 7109, 7038, 6967, 6895, 6822, 6749,
    6675, 6600, 6524, 6448, 6372, 6294, 6216, 6137, 6058, 5978, 5898, 5817,
    5735, 5653, 5570, 5487, 5403, 5319, 5234, 5148, 5062, 4976, 4889, 4801,
    4713, 4625, 4536, 4447, 4357, 4267, 4176, 4085, 3993, 3902, 3809, 3717,
    3624, 3530, 3436, 3342, 3248, 3153, 3058, 2963, 2867, 2771, 2675, 2579,
    2482, 2385, 2288, 2190, 2092, 1994, 1896, 1798, 1700, 1601, 1502, 1403,
    1304, 1205, 1106, 1006, 907, 807, 707, 608, 508, 408, 308, 208,
    108, 8, -92, -192, -292, -392, -492, -592, -691, -791, -891, -990,
    -1090, -1189, -1288, -1388, -1487, -1585, -1684, -1782, -1881, -1979, -2077, -2175,
    -2272, -2369, -2466, -2563, -2660, -2756, -2852, -2948, -3043, -3138, -3233, -3327,
    -3421, -3515, -3609, -3702, -3795, -3887, -3979, -4070, -4161, -4252, -4342, -4432,
    -4522, -4611, -4699, -4787, -4875, -4962, -5048, -5135, -5220, -5305, -5390, -5474,
    -5557, -5640, -5722, -5804, -5885, -5966, -6046, -6125, -6204, -6282, -6359, -6436,
    -6512, -6588, -6663, -6737, -6811, -6883, -6956, -7027, -7098, -7168, -7237, -7306,
    -7374, -7441, -7508, -7573, -7638, -7702, -7766, -7828, -7890, -7951, -8011, -8071,
    -8130, -8187, -8244, -8301, -8356, -8410, -8464, -8517, -8569, -8620, -8670, -8720,
    -8768, -8816, -8863, -8908, -8953, -8998, -9041, -9083, -9124, -9165, -9204, -9243,
    -9281, -9318, -9353, -9388, -9422, -9455, -9487, -9518, -9549, -9578, -9606, -9633,
    -9660, -9685, -9710, -9733, -9755, -9777, -9797, -9817, -9836, -9853, -9870, -9885,
    -9900, -9914, -9926, -9938, -9948, -9958, -9967, -9974, -9981, -9987, -9991, -9995,
    -9998, -9999, -10000, -10000, -9998, -9996, -9993, -9988, -9983, -9977, -9969, -9961,
    -9952, -9941, -9930, -9918, -9904, -9890, -9875, -9859, -9841, -9823, -9804, -9784,
    -9762, -9740, -9717, -9693, -9668, -9642, -9615, -9587, -9558, -9528, -9497, -9466,
    -9433, -9399, -9365, -9329, -9293, -9255, -9217, -9178, -9137, -9096, -9054, -9011,
    -8968, -8923, -8877, -8831, -8783, -8735, -8686, -8636, -8585, -8534, -8481, -8428,
    -8373, -8318, -8262, -8206, -8148, -8090, -8030, -7970, -7910, -7848, -7786, -7723,
    -7659, -7594, -7529, -7462, -7395, -7328, -7259, -7190, -7120, -7050, -6978, -6907,
    -6834, -6761, -6686, -6612, -6536, -6460, -6384, -6306, -6229, -6150, -6071, -5991,
    -5911, -5830, -5748, -5666, -5583, -5500, -5416, -5332, -5247, -5162, -5076, -4990,
    -4903, -4815, -4727, -4639, -4550, -4461, -4371, -4281, -4190, -4099, -4008, -3916,
    -3824, -3731, -3638, -3545, -3451, -3357, -3263, -3168, -3073, -2978, -2882, -2787,
    -2690, -2594, -2497, -2400, -2303, -2206, -2108, -2010, -1912, -1814, -1715, -1617,
    -1518, -1419, -1320, -1221, -1122, -1022, -923, -823, -723, -623, -524, -424,
    -324, -224, -124, -24, 76, 176, 276, 376, 476, 576, 676, 775,
    875, 975, 1074, 1173, 1273, 1372, 1471, 1570, 1668, 1767, 1865, 1963,
    2061, 2159, 2257, 2354, 2451, 2548, 2644, 2741, 2837, 2932, 3028, 3123,
    3218, 3312, 3407, 3500, 3594, 3687, 3780, 3872, 3964, 4056, 4147, 4238,
    4328, 4418, 4508, 4597, 4685, 4773, 4861, 4948, 5035, 5121, 5206, 5292,
    5376, 5460, 5544, 5627, 5709, 5791, 5872, 5953, 6033, 6112, 6191, 6269,
    6347, 6424, 6500, 6576, 6651, 6725, 6799, 6872, 6944, 7016, 7087, 7157,
    7226, 7295, 7363, 7430, 7497, 7563, 7628, 7692, 7756, 7818, 7880, 7942,
    8002, 8061, 8120, 8178, 8235, 8292, 8347, 8402, 8456, 8509, 8561, 8612,
    8662, 8712, 8761, 8808, 8855, 8901, 8946, 8991, 9034, 9076, 9118, 9158,
    9198, 9237, 9275, 9312, 9348, 9383, 9417, 9450, 9482, 9514, 9544, 9573,
    9602, 9629, 9656, 9681, 9706, 9729, 9752, 9774, 9794, 9814, 9833, 9850,
    9867, 9883, 9898, 9911, 9924, 9936, 9947, 9957, 9965, 9973, 9980, 9986,
    9991, 9994, 9997, 9999>>

\* sin(k / 100) * Unit for k = 0..627, at index k + 1
SinTable ==
  <<0, 100, 200, 300, 400, 500, 600, 699, 799, 899, 998, 1098,
    1197, 1296, 1395, 1494, 1593, 1692, 1790, 1889, 1987, 2085, 2182, 2280,
    2377, 2474, 2571, 2667, 2764, 2860, 2955, 3051, 3146, 3240, 3335, 3429,
    3523, 3616, 3709, 3802, 3894, 3986, 4078, 4169, 4259, 4350, 4439, 4529,
    4618, 4706, 4794, 4882, 4969, 5055, 5141, 5227, 5312, 5396, 5480, 5564,
    5646, 5729, 5810, 5891, 5972, 6052, 6131, 6210, 6288, 6365, 6442, 6518,
    6594, 6669, 6743, 6816, 6889, 6961, 7033, 7104, 7174, 7243, 7311, 7379,
    7446, 7513, 7578, 7643, 7707, 7771, 7833, 7895, 7956, 8016, 8076, 8134,
    8192, 8249, 8305, 8360, 8415, 8468, 8521, 8573, 8624, 8674, 8724, 8772,
    8820, 8866, 8912, 8957, 9001, 9044, 9086, 9128, 9168, 9208, 9246, 9284,
    9320, 9356, 9391, 9425, 9458, 9490, 9521, 9551, 9580, 9608, 9636, 9662,
    9687, 9711, 9735, 9757, 9779, 9799, 9819, 9837, 9854, 9871, 9887, 9901,
    9915, 9927, 9939, 9949, 9959, 9967, 9975, 9982, 9987, 9992, 9995, 9998,
    9999, 10000, 10000, 9998, 9996, 9992, 9988, 9982, 9976, 9969, 9960, 9951,
    9940, 9929, 9917, 9903, 9889, 9874, 9857, 9840, 9822, 9802, 9782, 9761,
    9738, 9715, 9691, 9666, 9640, 9613, 9585, 9556, 9526, 9495, 9463, 9430,
    9396, 9362, 9326, 9290, 9252, 9214, 9174, 9134, 9093, 9051, 9008, 8964,
    8919, 8874, 8827, 8780, 8731, 8682, 8632, 8581, 8529, 8477, 8423, 8369,
    8314, 8258, 8201, 8143, 8085, 8026, 7966, 7905, 7843, 7781, 7718, 7654,
    7589, 7523, 7457, 7390, 7322, 7254, 7185, 7115, 7044, 6973, 6901, 6828,
    6755, 6681, 6606, 6530, 6454, 6378, 6300, 6222, 6144, 6065, 5985, 5904,
    5823, 5742, 5660, 5577, 5494, 5410, 5325, 5240, 5155, 5069, 4983, 4896,
    4808, 4720, 4632, 4543, 4454, 4364, 4274, 4183, 4092, 4001, 3909, 3817,
    3724, 3631, 3538, 3444, 3350, 3255, 3161, 3066, 2970, 2875, 2779, 2683,
    2586, 2489, 2392, 2295, 2198, 2100, 2002, 1904, 1806, 1708, 1609, 1510,
    1411, 1312, 1213, 1114, 1014, 915, 815, 715, 616, 516, 416, 316,
    216, 116, 16, -84, -184, -284, -384, -484, -584, -684, -783, -883,
    -982, -1082, -1181, -1281, -1380, -1479, -1577, -1676, -1775, -1873, -1971, -2069,
    -2167, -2264, -2362, -2459, -2555, -2652, -2748, -2844, -2940, -3035, -3131, -3225,
    -3320, -3414, -3508, -3601, -3694, -3787, -3880, -3971, -4063, -4154, -4245, -4335,
    -4425, -4515, -4604, -4692, -4780, -4868, -4955, -5042, -5128, -5213, -5298, -5383,
    -5467, -5550, -5633, -5716, -5797, -5879, -5959, -6039, -6119, -6197, -6276, -6353,
    -6430, -6506, -6582, -6657, -6731, -6805, -6878, -6950, -7021, -7092, -7162, -7232,
    -7301, -7369, -7436, -7502, -7568, -7633, -7697, -7761, -7823, -7885, -7946, -8007,
    -8066, -8125, -8183, -8240, -8296, -8352, -8406, -8460, -8513, -8565, -8616, -8666,
    -8716, -8764, -8812, -8859, -8905, -8950, -8994, -9037, -9080, -9121, -9162, -9201,
    -9240, -9278, -9315, -9351, -9386, -9420, -9453, -9485, -9516, -9546, -9576, -9604,
    -9631, -9658, -9683, -9708, -9731, -9754, -9775, -9796, -9816, -9834, -9852, -9868,
    -9884, -9899, -9912, -9925, -9937, -9948, -9957, -9966, -9974, -9981, -9986, -9991,
    -9995, -9997, -9999, -10000, -10000, -9998, -9996, -9993, -9989, -9983, -9977, -9970,
    -9962, -9952, -9942, -9931, -9919, -9905, -9891, -9876, -9860, -9843, -9825, -9805,
    -9785, -9764, -9742, -9719, -9695, -9670, -9644, -9617, -9589, -9560, -9531, -9500,
    -9468, -9435, -9402, -9367, -9332, -9295, -9258, -9220, -9181, -9141, -9100, -9058,
    -9015, -8971, -8926, -8881, -8835, -8787, -8739, -8690, -8640, -8589, -8538, -8485,
    -8432, -8378, -8323, -8267, -8210, -8153, -8094, -8035, -7975, -7915, -7853, -7791,
    -7728, -7664, -7599, -7534, -7468, -7401, -7333, -7265, -7196, -7126, -7055, -6984,
    -6912, -6840, -6766, -6692, -6618, -6542, -6467, -6390, -6313, -6235, -6156, -6077,
    -5997, -5917, -5836, -5755, -5673, -5590, -5507, -5423, -5339, -5254, -5169, -5083,
    -4996, -4910, -4822, -4734, -4646, -4557, -4468, -4378, -4288, -4198, -4107, -4015,
    -3924, -3831, -3739, -3646, -3553, -3459, -3365, -3271, -3176, -3081, -2986, -2890,
    -2794, -2698, -2602, -2505, -2408, -2311, -2213, -2116, -2018, -1920, -1822, -1723,
    -1625, -1526, -1427, -1328, -1229, -1129, -1030, -931, -831, -731, -631, -532,
    -432, -332, -232, -132>>

\* exp(-k / 10) * Unit for k = 0..100, at index k + 1
ExpNegTenthsTable ==
  <<10000, 9048, 8187, 7408, 6703, 6065, 5488, 4966, 4493, 4066, 3679, 3329,
    3012, 2725, 2466, 2231, 2019, 1827, 1653, 1496, 1353, 1225, 1108, 1003,
    907, 821, 743, 672, 608, 550, 498, 450, 408, 369, 334, 302,
    273, 247, 224, 202, 183, 166, 150, 136, 123, 111, 101, 91,
    82, 74, 67, 61, 55, 50, 45, 41, 37, 33, 30, 27,
    25, 22, 20, 18, 17, 15, 14, 12, 11, 10, 9, 8,
    7, 7, 6, 6, 5, 5, 4, 4, 3, 3, 3, 2,
    2, 2, 2, 2, 2, 1, 1, 1, 1, 1, 1, 1,
    1, 1, 1, 1, 0>>

\* exp(-|f1 / f2 - 1|) * Unit for the frequencies (in tenths) of the static table
ExpNegRatioTable ==
    <<2, 2>> :> 10000 @@ <<2, 3>> :> 7165 @@ <<2, 5>> :> 5488 @@ <<2, 8>> :> 4724 @@ <<2, 10>> :> 4493 @@ <<2, 12>> :> 4346 @@ <<2, 15>> :> 4204 @@ <<2, 20>> :> 4066 @@
    <<3, 2>> :> 6065 @@ <<3, 3>> :> 10000 @@ <<3, 5>> :> 6703 @@ <<3, 8>> :> 5353 @@ <<3, 10>> :> 4966 @@ <<3, 12>> :> 4724 @@ <<3, 15>> :> 4493 @@ <<3, 20>> :> 4274 @@
    <<5, 2>> :> 2231 @@ <<5, 3>> :> 5134 @@ <<5, 5>> :> 10000 @@ <<5, 8>> :> 6873 @@ <<5, 10>> :> 6065 @@ <<5, 12>> :> 5580 @@ <<5, 15>> :> 5134 @@ <<5, 20>> :> 4724 @@
    <<8, 2>> :> 498 @@ <<8, 3>> :> 1889 @@ <<8, 5>> :> 5488 @@ <<8, 8>> :> 10000 @@ <<8, 10>> :> 8187 @@ <<8, 12>> :> 7165 @@ <<8, 15>> :> 6271 @@ <<8, 20>> :> 5488 @@
    <<10, 2>> :> 183 @@ <<10, 3>> :> 970 @@ <<10, 5>> :> 3679 @@ <<10, 8>> :> 7788 @@ <<10, 10>> :> 10000 @@ <<10, 12>> :> 8465 @@ <<10, 15>> :> 7165 @@ <<10, 20>> :> 6065 @@
    <<12, 2>> :> 67 @@ <<12, 3>> :> 498 @@ <<12, 5>> :> 2466 @@ <<12, 8>> :> 6065 @@ <<12, 10>> :> 8187 @@ <<12, 12>> :> 10000 @@ <<12, 15>> :> 8187 @@ <<12, 20>> :> 6703 @@
    <<15, 2>> :> 15 @@ <<15, 3>> :> 183 @@ <<15, 5>> :> 1353 @@ <<15, 8>> :> 4169 @@ <<15, 10>> :> 6065 @@ <<15, 12>> :> 7788 @@ <<15, 15>> :> 10000 @@ <<15, 20>> :> 7788 @@
    <<20, 2>> :> 1 @@ <<20, 3>> :> 35 @@ <<20, 5>> :> 498 @@ <<20, 8>> :> 2231 @@ <<20, 10>> :> 3679 @@ <<20, 12>> :> 5134 @@ <<20, 15>> :> 7165 @@ <<20, 20>> :> 10000

\* Math.cos of a difference of two phases, d in hundredths of a radian
Cos(d) == CosTable[d + 1]
\* Math.sin of a difference of two phases
Sin(d) == SinTable[d + 1]
\* Math.exp(-x) for x = k / 10
ExpNegTenths(k) == IF k > 100 THEN 0 ELSE ExpNegTenthsTable[k + 1]
\* Math.exp(-Math.abs(f1 / f2 - 1))
ExpNegRatio(f1, f2) == ExpNegRatioTable[<<f1, f2>>]

----------------------------------------------------------------------------
(* Wave types, the static frequency table, configurations.                 *)

WaveTypes ==
  {"CONTEXT", "INTENT", "CONFIDENCE", "TEMPORAL", "MEMORY", "PERSONA", "REASONING",
   "VISUAL"}

\* the static table WaveFrequencies, in tenths
WaveFrequencies ==
  [wt \in WaveTypes |->
     CASE wt = "CONTEXT" -> 5
       [] wt = "INTENT" -> 10
       [] wt = "CONFIDENCE" -> 20
       [] wt = "TEMPORAL" -> 8
       [] wt = "MEMORY" -> 3
       [] wt = "PERSONA" -> 2
       [] wt = "REASONING" -> 12
       [] wt = "VISUAL" -> 15]

\* defaultHolographicConfig, with the region cap scaled down from 100 to 2
ConfigDefault ==
  [maxFragmentsPerRegion |-> 2,
   constructiveThreshold |-> (6 * Unit) \div 10,
   emergentThreshold |-> (8 * Unit) \div 10,
   minimumCoherence |-> (4 * Unit) \div 10,
   crossSessionEnabled |-> TRUE,
   frequencies |-> WaveFrequencies]

\* a configuration set from the parameter panel: cap 1, the thresholds lowered,
\* cross-session persistence switched off, the per-type frequencies edited
ConfigTuned ==
  [maxFragmentsPerRegion |-> 1,
   constructiveThreshold |-> (3 * Unit) \div 10,
   emergentThreshold |-> (5 * Unit) \div 10,
   minimumCoherence |-> (1 * Unit) \div 10,
   crossSessionEnabled |-> FALSE,
   frequencies |-> [wt \in WaveTypes |-> WaveFrequencies[wt] + 1]]

Configs == {ConfigDefault, ConfigTuned}

----------------------------------------------------------------------------
(* The inputs of the model.                                                *)

\* 'Rust and Go are great'
TextRustGo ==
  <<82, 117, 115, 116, 32, 97, 110, 100, 32, 71, 111, 32, 97, 114, 101, 32, 103, 114, 101, 97, 116>>
\* 'Rust great rust great rust great'
TextRustChant ==
  <<82, 117, 115, 116, 32, 103, 114, 101, 97, 116, 32, 114, 117, 115, 116, 32, 103, 114, 101, 97, 116, 32, 114, 117, 115, 116, 32, 103, 114, 101, 97, 116>>
\* 'Rust is excellent for systems work'
TextRustSystems ==
  <<82, 117, 115, 116, 32, 105, 115, 32, 101, 120, 99, 101, 108, 108, 101, 110, 116, 32, 102, 111, 114, 32, 115, 121, 115, 116, 101, 109, 115, 32, 119, 111, 114, 107>>
\* 'OccipitalLobe'
RegionOccipitalLobe ==
  <<79, 99, 99, 105, 112, 105, 116, 97, 108, 76, 111, 98, 101>>
\* 'TemporalLobe'
RegionTemporalLobe ==
  <<84, 101, 109, 112, 111, 114, 97, 108, 76, 111, 98, 101>>
\* 'InnerBrain'
RegionInnerBrain ==
  <<73, 110, 110, 101, 114, 66, 114, 97, 105, 110>>
\* 'InterferenceEngine'
RegionInterferenceEngine ==
  <<73, 110, 116, 101, 114, 102, 101, 114, 101, 110, 99, 101, 69, 110, 103, 105, 110, 101>>
\* 'rust great'
QueryRustGreat ==
  <<114, 117, 115, 116, 32, 103, 114, 101, 97, 116>>

\* what callers store or propagate: content, region, wave type, and the
\* importance (amplitude), which may be a confidence of 0
Catalogue ==
  { [content |-> TextRustGo, sourceRegion |-> RegionOccipitalLobe,
     waveType |-> "MEMORY", amplitude |-> Unit],
    [content |-> <<>>, sourceRegion |-> RegionInnerBrain,
     waveType |-> "MEMORY", amplitude |-> (8 * Unit) \div 10],
    [content |-> TextRustSystems, sourceRegion |-> RegionTemporalLobe,
     waveType |-> "CONFIDENCE", amplitude |-> 0] }

\* what callers store directly in a HolographicMemorySystem
StoreCatalogue == {e \in Catalogue : e.waveType = "MEMORY"}

\* the target contexts callers pass, by name
ContextNames == {"undefined", "circular", "null", "query"}

Context(name) ==
  CASE name = "query" -> [kind |-> "object", query |-> QueryRustGreat, type |-> "none"]
    [] OTHER -> [kind |-> name, query |-> <<>>, type |-> "none"]

\* the requiredCoherence values callers pass: the engine's default 0.6 and the
\* degradation floor 0.4
RequiredCoherences == {(6 * Unit) \div 10, (4 * Unit) \div 10}

----------------------------------------------------------------------------
(* InterferenceEngine.                                                     *)

\* 'Emergent insight: Connection between "'
InsightPrefix ==
  <<69, 109, 101, 114, 103, 101, 110, 116, 32, 105, 110, 115, 105, 103, 104,
    116, 58, 32, 67, 111, 110, 110, 101, 99, 116, 105, 111, 110, 32, 98, 101,
    116, 119, 101, 101, 110, 32, 34>>
\* '" and "'
InsightMiddle ==
  <<34, 32, 97, 110, 100, 32, 34>>
\* '" through common elements: '
InsightSuffix ==
  <<34, 32, 116, 104, 114, 111, 117, 103, 104, 32, 99, 111, 109, 109, 111,
    110, 32, 101, 108, 101, 109, 101, 110, 116, 115, 58, 32>>
\* ', '
CommaSpace ==
  <<44, 32>>

\* extractText: a string is returned as it is (the contents of the model are
\* strings)
extractText(content) == content

\* synthesizeContent past its coherence test: undefined for an empty text or
\* when the texts share no word longer than 3 characters
Synthesis(content1, content2) ==
  LET text1 == extractText(content1)
      text2 == extractText(content2)
      words1 == SplitWhite(ToLowerCase(text1))
      words2 == SplitWhite(ToLowerCase(text2))
      commonWords == SelectSeq(words1, LAMBDA word : Member(words2, word) /\ Len(word) > 3)
  IN  IF text1 = <<>> \/ text2 = <<>> THEN Undefined
      ELSE IF Len(commonWords) > 0
        THEN Text(InsightPrefix \o Substring0(text1, 50) \o InsightMiddle
                  \o Substring0(text2, 50) \o InsightSuffix
                  \o Join(SubSeq(commonWords, 1, Min(3, Len(commonWords))), CommaSpace))
      ELSE Undefined

\* Values computed from the strings of the model are evaluated once, kept as sets
\* of <<argument, value>> and looked up afterwards.
Known(memo, key) == \E e \in memo : e[1] = key
Lookup(memo, key) == (CHOOSE e \in memo : e[1] = key)[2]

CatalogueContents == {e.content : e \in Catalogue}
SynthesisMemo ==
  {<<p, Synthesis(p[1], p[2])>> : p \in CatalogueContents \X CatalogueContents}

\* synthesizeContent without its first line, the test of the coherence level
synthesizeContentUngated(content1, content2, coherenceLevel) ==
  Synthesis(content1, content2)

\* synthesizeContent: undefined below coherence 0.5
synthesizeContent(content1, content2, coherenceLevel) ==
  IF coherenceLevel * 2 < Unit THEN Undefined
  ELSE IF Known(SynthesisMemo, <<content1, content2>>)
    THEN Lookup(SynthesisMemo, <<content1, content2>>)
  ELSE Synthesis(content1, content2)

\* the insights the waves of the model can give rise to
InsightContents == {e[2].text : e \in {x \in SynthesisMemo : x[2].kind = "text"}}

\* every content a fragment of the model can hold
Contents == CatalogueContents \cup InsightContents

\* calculateInterference.  Phases are in hundredths of a radian, so
\* phaseDifference < Math.PI / 4 (0.7853...) is phaseDifference <= 78.
calculateInterference(wave1, wave2, t) ==
  LET phaseDifference == Abs(wave1.phase - wave2.phase)
      constructive == phaseDifference <= 78
      product == (wave1.amplitude * wave2.amplitude) \div Unit
      resultantAmplitude ==
        IF constructive THEN (product * Cos(phaseDifference)) \div Unit
        ELSE (product * Sin(phaseDifference)) \div Unit
      phaseCoherence == Cos(phaseDifference)
      frequencyCoherence == ExpNegRatio(wave1.frequency, wave2.frequency)
      coherenceLevel == (phaseCoherence + frequencyCoherence) \div 2
  IN  [waveIds |-> <<wave1.id, wave2.id>>,
       resultantAmplitude |-> resultantAmplitude,
       coherenceLevel |-> coherenceLevel,
       emergentContent |-> synthesizeContent(wave1.content, wave2.content, coherenceLevel),
       constructive |-> constructive,
       timestamp |-> t]

\* the loop of processWaveInterference without its test of the coherence level:
\* the interferences of all the pairs i < j
RECURSIVE InterferenceResultsUnfiltered(_, _, _, _, _)
InterferenceResultsUnfiltered(waves, cfg, t, i, j) ==
  IF i >= Len(waves) THEN <<>>
  ELSE IF j > Len(waves) THEN InterferenceResultsUnfiltered(waves, cfg, t, i + 1, i + 2)
  ELSE <<calculateInterference(waves[i], waves[j], t)>>
       \o InterferenceResultsUnfiltered(waves, cfg, t, i, j + 1)

\* a processing loop that scores every pair in both orders
RECURSIVE InterferenceResultsBothOrders(_, _, _, _, _)
InterferenceResultsBothOrders(waves, cfg, t, i, j) ==
  IF i > Len(waves) THEN <<>>
  ELSE IF j > Len(waves) THEN InterferenceResultsBothOrders(waves, cfg, t, i + 1, 1)
  ELSE (IF i # j /\ calculateInterference(waves[i], waves[j], t).coherenceLevel
                      > cfg.constructiveThreshold
        THEN <<calculateInterference(waves[i], waves[j], t)>> ELSE <<>>)
       \o InterferenceResultsBothOrders(waves, cfg, t, i, j + 1)

\* the loop of processWaveInterference over the pairs i < j: the interferences
\* whose coherence exceeds the constructive threshold, in the order they are set
RECURSIVE InterferenceResults(_, _, _, _, _)
InterferenceResults(waves, cfg, t, i, j) ==
  IF i >= Len(waves) THEN <<>>
  ELSE IF j > Len(waves) THEN InterferenceResults(waves, cfg, t, i + 1, i + 2)
  ELSE LET interference == calculateInterference(waves[i], waves[j], t)
       IN  (IF interference.coherenceLevel > cfg.constructiveThreshold
            THEN <<interference>> ELSE <<>>)
           \o InterferenceResults(waves, cfg, t, i, j + 1)

\* classifyBehaviorType with the test for INSIGHT made first
classifyBehaviorTypeInsightFirst(interference) ==
  IF interference.coherenceLevel * 10 > 7 * Unit /\ interference.constructive
    THEN "INSIGHT"
  ELSE IF /\ interference.coherenceLevel * 10 > 8 * Unit
          /\ interference.constructive
          /\ interference.resultantAmplitude * 10 > 7 * Unit
    THEN "SYNTHESIS"
  ELSE IF ~interference.constructive /\ interference.coherenceLevel * 10 > 6 * Unit
    THEN "CONTRADICTION"
  ELSE "CORRELATION"

\* classifyBehaviorType
classifyBehaviorType(interference) ==
  IF /\ interference.coherenceLevel * 10 > 8 * Unit
     /\ interference.constructive
     /\ interference.resultantAmplitude * 10 > 7 * Unit
    THEN "SYNTHESIS"
  ELSE IF interference.coherenceLevel * 10 > 7 * Unit /\ interference.constructive
    THEN "INSIGHT"
  ELSE IF ~interference.constructive /\ interference.coherenceLevel * 10 > 6 * Unit
    THEN "CONTRADICTION"
  ELSE "CORRELATION"

\* detectEmergentPatterns: a behavior for each retained interference above the
\* emergent threshold that has emergent content
detectEmergentPatterns(interferenceResults, cfg) ==
  LET emergent == SelectSeq(interferenceResults,
                    LAMBDA x : /\ x.coherenceLevel > cfg.emergentThreshold
                               /\ x.emergentContent.kind = "text")
  IN  [k \in 1..Len(emergent) |->
         [triggerPattern |-> emergent[k].waveIds,
          behaviorType |-> classifyBehaviorType(emergent[k]),
          confidence |-> emergent[k].coherenceLevel,
          insight |-> emergent[k].emergentContent.text,
          timestamp |-> emergent[k].timestamp]]

\* the sum of the coherence levels of a list of interferences
RECURSIVE SumCoherence(_)
SumCoherence(list) ==
  IF list = <<>> THEN 0 ELSE Head(list).coherenceLevel + SumCoherence(Tail(list))

\* calculateSystemCoherence without the outer Math.min(1.0, ...)
calculateSystemCoherenceUnclamped(interferenceResults) ==
  IF Len(interferenceResults) = 0 THEN Unit \div 2
  ELSE LET size == Len(interferenceResults)
           averageCoherence == SumCoherence(interferenceResults) \div size
           complexityBoost == Min((2 * Unit) \div 10, (size * 5 * Unit) \div 100)
       IN  averageCoherence + complexityBoost

\* calculateSystemCoherence: 0.5 for no pattern, else
\* min(1.0, average + min(0.2, 0.05 * size))
calculateSystemCoherence(interferenceResults) ==
  IF Len(interferenceResults) = 0 THEN Unit \div 2
  ELSE LET size == Len(interferenceResults)
           averageCoherence == SumCoherence(interferenceResults) \div size
           complexityBoost == Min((2 * Unit) \div 10, (size * 5 * Unit) \div 100)
       IN  Min(Unit, averageCoherence + complexityBoost)

\* processWaveInterference
processWaveInterference(waves, cfg, t) ==
  LET interferenceResults == InterferenceResults(waves, cfg, t, 1, 2)
  IN  [interferenceResults |-> interferenceResults,
       emergentPatterns |-> detectEmergentPatterns(interferenceResults, cfg),
       systemCoherence |-> calculateSystemCoherence(interferenceResults)]

\* lines 24-26 of processWaveInterference: each retained interference is set in
\* activePatterns under its pattern id (the ids of its two waves)
RECURSIVE SetPatterns(_, _, _)
SetPatterns(patterns, results, i) ==
  IF i > Len(results) THEN patterns
  ELSE SetPatterns(SetBy(patterns, results[i], "waveIds"), results, i + 1)

\* line 139 of detectEmergentPatterns: each behavior is set in emergentBehaviors
\* under an id of its own (time stamp and six random characters)
SetBehaviors(behaviors, emergentPatterns) == behaviors \o emergentPatterns

\* processWaveInterference serving the patterns of its cache: what it returns
\* is made from activePatterns as they are after the loop
processWaveInterferenceFromCache(patterns, behaviors, waves, cfg, t) ==
  LET Outcome(cached) ==
        [result |-> [interferenceResults |-> cached,
                     emergentPatterns |-> detectEmergentPatterns(cached, cfg),
                     systemCoherence |-> calculateSystemCoherence(cached)],
         activePatterns |-> cached,
         emergentBehaviors |-> SetBehaviors(behaviors, detectEmergentPatterns(cached, cfg))]
  IN  Outcome(SetPatterns(patterns, InterferenceResults(waves, cfg, t, 1, 2), 1))

\* processWaveInterference on an engine whose caches are patterns and behaviors:
\* what it returns, and the caches afterwards
processWaveInterferenceOn(patterns, behaviors, waves, cfg, t) ==
  LET Outcome(r) ==
        [result |-> r,
         activePatterns |-> SetPatterns(patterns, r.interferenceResults, 1),
         emergentBehaviors |-> SetBehaviors(behaviors, r.emergentPatterns)]
  IN  Outcome(processWaveInterference(waves, cfg, t))

\* getActivePatterns
getActivePatterns(patterns) == patterns

\* getEmergentBehaviors
getEmergentBehaviors(behaviors) == behaviors

\* clearOldPatterns, the loop over emergentBehaviors
clearOldBehaviors(behaviors, t) == SelectSeq(behaviors, LAMBDA x : ~(t - x.timestamp > 0))

\* clearOldPatterns with the default maxAge of 5 minutes: on a clock that reads
\* hours, a pattern of an earlier reading is older than that
clearOldPatterns(patterns, t) == SelectSeq(patterns, LAMBDA x : ~(t - x.timestamp > 0))

----------------------------------------------------------------------------
(* HolographicMemorySystem.                                                *)

\* the words of fragment.content.toLowerCase().split(' ')
SplitContent(content) == Split(ToLowerCase(content), Space)

SplitContentMemo == {<<content, SplitContent(content)>> : content \in Contents}
ContentWords(content) ==
  IF Known(SplitContentMemo, content) THEN Lookup(SplitContentMemo, content)
  ELSE SplitContent(content)

PhaseMemo ==
  {<<<<e.content, e.sourceRegion>>, calculatePhase(e.content, e.sourceRegion)>> :
     e \in Catalogue}
  \cup {<<<<insight, RegionInterferenceEngine>>,
          calculatePhase(insight, RegionInterferenceEngine)>> :
          insight \in InsightContents}
PhaseOf(content, sourceRegion) ==
  IF Known(PhaseMemo, <<content, sourceRegion>>)
  THEN Lookup(PhaseMemo, <<content, sourceRegion>>)
  ELSE calculatePhase(content, sourceRegion)

JsonMemo == {<<Context(name), JsonStringify(Context(name))>> : name \in ContextNames}
JsonOf(ctx) == IF Known(JsonMemo, ctx) THEN Lookup(JsonMemo, ctx) ELSE JsonStringify(ctx)

\* JSON.stringify(targetContext).toLowerCase().split(' ')
SplitContext(contextText) == Split(ToLowerCase(contextText), Space)
ContextTexts == {e[2].text : e \in {x \in JsonMemo : x[2].kind = "string"}}

\* the filter of findRelevantFragments: the words of the content that contain, or
\* are contained in, a word of the context
CommonWords(contentWords, contextWords) ==
  SelectSeq(contentWords,
            LAMBDA word : \E k \in 1..Len(contextWords) :
               Includes(contextWords[k], word) \/ Includes(word, contextWords[k]))
CommonWordsMemo ==
  {<<p, Len(CommonWords(SplitContent(p[1]), SplitContext(p[2])))>> :
     p \in Contents \X ContextTexts}
CommonWordCount(content, contextText) ==
  IF Known(CommonWordsMemo, <<content, contextText>>)
  THEN Lookup(CommonWordsMemo, <<content, contextText>>)
  ELSE Len(CommonWords(ContentWords(content), SplitContext(contextText)))

\* the content similarity of calculateFragmentCoherence:
\* commonWords.length / Math.max(content1Words.length, content2Words.length)
ContentCoherence(content1, content2) ==
  LET content1Words == SplitContent(content1)
      content2Words == SplitContent(content2)
      commonWords == SelectSeq(content1Words, LAMBDA word : Member(content2Words, word))
  IN  (Len(commonWords) * Unit) \div Max(Len(content1Words), Len(content2Words))
ContentCoherenceMemo == {<<p, ContentCoherence(p[1], p[2])>> : p \in Contents \X Contents}
ContentCoherenceOf(content1, content2) ==
  IF Known(ContentCoherenceMemo, <<content1, content2>>)
  THEN Lookup(ContentCoherenceMemo, <<content1, content2>>)
  ELSE ContentCoherence(content1, content2)

\* f.content.includes(content.substring(0, 50)) of performHolographicReconstruction
IncludesHead(content1, content2) == Includes(content1, Substring0(content2, 50))
IncludesHeadMemo == {<<p, IncludesHead(p[1], p[2])>> : p \in Contents \X Contents}
IncludesHeadOf(content1, content2) ==
  IF Known(IncludesHeadMemo, <<content1, content2>>)
  THEN Lookup(IncludesHeadMemo, <<content1, content2>>)
  ELSE IncludesHead(content1, content2)

\* Array.prototype.sort with a comparator b[field] - a[field]: descending,
\* stable (elements that compare equal keep their order)
RECURSIVE InsertDescBy(_, _, _)
InsertDescBy(sorted, x, field) ==
  IF sorted = <<>> THEN <<x>>
  ELSE IF Head(sorted)[field] >= x[field]
       THEN <<Head(sorted)>> \o InsertDescBy(Tail(sorted), x, field)
       ELSE <<x>> \o sorted

RECURSIVE SortDescFrom(_, _, _, _)
SortDescFrom(seq, i, field, sorted) ==
  IF i > Len(seq) THEN sorted
  ELSE SortDescFrom(seq, i + 1, field, InsertDescBy(sorted, seq[i], field))

SortDescBy(seq, field) == SortDescFrom(seq, 1, field, <<>>)

\* the ids of the fragments (or waves) of a sequence
Ids(seq) == {seq[i].id : i \in 1..Len(seq)}

\* getFragmentsByRegion
getFragmentsByRegion(frags, region) ==
  SelectSeq(frags, LAMBDA f : f.sourceRegion = region)

\* getFragmentCount
getFragmentCount(frags) == Len(frags)

\* cleanupOldFragments: the fragments of the region, newest timestamp first;
\* those past the cap are deleted
cleanupOldFragments(frags, cfg, sourceRegion) ==
  LET regionFragments == SortDescBy(getFragmentsByRegion(frags, sourceRegion), "timestamp")
      cap == cfg.maxFragmentsPerRegion
      toRemove == IF Len(regionFragments) > cap
                  THEN Ids(SubSeq(regionFragments, cap + 1, Len(regionFragments)))
                  ELSE {}
  IN  SelectSeq(frags, LAMBDA f : f.id \notin toRemove)

\* the fragment storeFragment builds
NewFragment(id, t, content, sourceRegion, waveType, importance) ==
  [id |-> id,
   content |-> content,
   sourceRegion |-> sourceRegion,
   waveType |-> waveType,
   frequency |-> WaveFrequencies[waveType],
   amplitude |-> importance,
   phase |-> PhaseOf(content, sourceRegion),
   timestamp |-> t,
   importance |-> importance]

\* storeFragment: insert, then clean the region up; the fragments afterwards
storeFragment(frags, cfg, id, t, content, sourceRegion, waveType, importance) ==
  cleanupOldFragments(
    Append(frags, NewFragment(id, t, content, sourceRegion, waveType, importance)),
    cfg, sourceRegion)

\* 7 days, in hours
SevenDays == 168

\* Math.exp(-age / (7 * 24 * 60 * 60 * 1000)) for an age in hours, in steps of
\* 12 hours
ExpNegWeekTable ==
  <<10000, 9311, 8669, 8071, 7515, 6997, 6514, 6065, 5647, 5258, 4895, 4558,
    4244, 3951, 3679, 3425, 3189, 2969, 2765, 2574, 2397, 2231, 2077, 1934,
    1801, 1677, 1561, 1454, 1353, 1260, 1173, 1092, 1017, 947, 882, 821, 764,
    712, 663, 617, 574, 535, 498, 464, 432, 402, 374, 348, 324>>
ExpNegWeek(ageHours) == ExpNegWeekTable[Min(ageHours \div 12, 48) + 1]

\* An entry of the persisted object: its key and its value.  The value is a
\* fragment as JSON.stringify wrote it or a malformed record: null ("null"), a
\* number ("number"), a fragment without timestamp ("noTimestamp"), a fragment
\* whose timestamp does not parse ("badTimestamp").
Persisted(fragment) == [key |-> fragment.id, kind |-> "fragment", fragment |-> fragment]
Malformed(key, kind) == [key |-> key, kind |-> kind, fragment |-> Null]

\* the filter of persistFragment: the record has a timestamp less than 7 days
\* old (a malformed record gives NaN, or throws inside the filter's try)
IsRecent(entry, t) ==
  entry.kind = "fragment" /\ t - entry.fragment.timestamp < SevenDays

\* persistFragment: the fragment is set under its id, the recent records are
\* kept and written back
persistFragment(blob, fragment, t) ==
  SelectSeq(SetBy(blob, Persisted(fragment), "key"), LAMBDA entry : IsRecent(entry, t))

\* lines 38-41 of storeFragment: persist if cross-session is enabled
PersistIfEnabled(blob, cfg, fragment, t) ==
  IF cfg.crossSessionEnabled THEN persistFragment(blob, fragment, t) ELSE blob

\* storeFragment called for each fragment of a list in turn: the persisted
\* entries afterwards
RECURSIVE PersistAll(_, _, _, _, _)
PersistAll(blob, cfg, list, i, t) ==
  IF i > Len(list) THEN blob
  ELSE PersistAll(PersistIfEnabled(blob, cfg, list[i], t), cfg, list, i + 1, t)

\* the forEach of loadPersistedFragments from entry i on.
\*   A record without a valid timestamp is skipped (line 286-289).
\*   For a null record the read of fragment.timestamp throws inside the
\*   per-record try, and the handler's own read of fragment.id (line 301) throws
\*   again: the forEach ends there, caught by the outer try (line 304).
\*   A valid record is restored with amplitude * exp(-age / 7 days) if that
\*   exceeds 0.1.
RECURSIVE LoadFrom(_, _, _, _)
LoadFrom(blob, i, t, loaded) ==
  IF i > Len(blob) THEN loaded
  ELSE IF blob[i].kind = "null" THEN loaded
  ELSE IF blob[i].kind # "fragment" THEN LoadFrom(blob, i + 1, t, loaded)
  ELSE LoadFrom(blob, i + 1, t,
         IF blob[i].fragment.amplitude * ExpNegWeek(t - blob[i].fragment.timestamp)
              > Unit * (Unit \div 10)
         THEN SetBy(loaded,
                    [blob[i].fragment EXCEPT
                       !.amplitude = (blob[i].fragment.amplitude
                                      * ExpNegWeek(t - blob[i].fragment.timestamp))
                                     \div Unit],
                    "id")
         ELSE loaded)

\* loadPersistedFragments, called by the constructor: the fragments in memory
loadPersistedFragments(blob, cfg, t) ==
  IF ~cfg.crossSessionEnabled THEN <<>> ELSE LoadFrom(blob, 1, t, <<>>)

\* A fragment an earlier session has stored and persisted: its number, its age
\* in hours when the model starts, its importance.
PersistedEarlier(k, ageHours, importance) ==
  Persisted(NewFragment(<<0, k>>, 0 - ageHours, TextRustGo, RegionOccipitalLobe, "MEMORY",
                        importance))

\* A fragment of importance 0.35 an earlier session has stored 6 days before the
\* model starts
PersistedFaded(k) ==
  Persisted(NewFragment(<<0, k>>, 0 - 144, TextRustChant, RegionOccipitalLobe, "MEMORY",
                        (35 * Unit) \div 100))

\* The records the persisted object may hold when a store is constructed:
\* fragments written 12 hours, 8 days and 17 days earlier with importance 1.0,
\* one written 8 days earlier with importance 0.3, two written 6 days earlier
\* with importance 0.35, and malformed records.
PersistedPool ==
  { PersistedEarlier(1, 12, Unit),
    PersistedFaded(9),
    PersistedFaded(10),
    PersistedEarlier(2, 192, Unit),
    PersistedEarlier(3, 192, (3 * Unit) \div 10),
    PersistedEarlier(4, 408, Unit),
    Malformed(<<0, 5>>, "null"),
    Malformed(<<0, 6>>, "number"),
    Malformed(<<0, 7>>, "noTimestamp"),
    Malformed(<<0, 8>>, "badTimestamp") }

\* the persisted objects: up to MaxPersisted records of the pool, in any order
PersistedObjects ==
  UNION {{blob \in [1..n -> PersistedPool] :
            \A i, j \in 1..n : i # j => blob[i] # blob[j]} : n \in 0..MaxPersisted}

\* findRelevantFragments, the body of the loop: does the fragment's relevance
\* score exceed 0.2 at time t?  With c common words, type match m (0 or 1) and
\* age a hours the score is (0.1 c + 0.3 m + 0.2 max(0, 1 - a / 24)) * importance,
\* that is ((24 c + 72 m + 2 max(0, 24 - a)) / 240) * importance.
\* For targetContext = null the read of targetContext.type throws inside the
\* loop's try, and the fragment is skipped.
IsRelevant(fragment, ctx, contextText, t) ==
  LET commonWords == CommonWordCount(fragment.content, contextText)
      typeMatch == IF ctx.type # "none" /\ ctx.type = fragment.waveType THEN 1 ELSE 0
      ageHours == t - fragment.timestamp
      relevanceScore240 == 24 * commonWords + 72 * typeMatch + 2 * Max(0, 24 - ageHours)
  IN  /\ ctx.kind # "null"
      /\ relevanceScore240 * fragment.importance > 48 * Unit

\* findRelevantFragments for a context whose JSON text is contextText: the
\* fragments kept, sorted by importance, highest first
findRelevantFragments(frags, ctx, contextText, t) ==
  SortDescBy(SelectSeq(frags, LAMBDA f : IsRelevant(f, ctx, contextText, t)),
             "importance")

\* calculateFragmentCoherence:
\* 0.3 exp(-|f1 - f2|) + 0.3 cos(|p1 - p2|) + 0.4 common / max(words1, words2)
calculateFragmentCoherence(frag1, frag2) ==
  LET freqCoherence == ExpNegTenths(Abs(frag1.frequency - frag2.frequency))
      phaseCoherence == Cos(Abs(frag1.phase - frag2.phase))
      contentCoherence == ContentCoherenceOf(frag1.content, frag2.content)
  IN  (3 * freqCoherence + 3 * phaseCoherence + 4 * contentCoherence) \div 10

\* the sum of calculateFragmentCoherence over the pairs i < j
RECURSIVE TotalCoherence(_, _, _)
TotalCoherence(list, i, j) ==
  IF i >= Len(list) THEN 0
  ELSE IF j > Len(list) THEN TotalCoherence(list, i + 1, i + 2)
  ELSE calculateFragmentCoherence(list[i], list[j]) + TotalCoherence(list, i, j + 1)

\* assessReconstructionViability: 0.7 * average coherence + 0.3 * min(1, n / 5)
assessReconstructionViability(list) ==
  IF Len(list) = 0 THEN 0
  ELSE LET n == Len(list)
           pairCount == (n * (n - 1)) \div 2
           averageCoherence ==
             IF pairCount > 0 THEN TotalCoherence(list, 1, 2) \div pairCount ELSE 0
           countBoost == Min(Unit, (n * Unit) \div 5)
       IN  (7 * averageCoherence + 3 * countBoost) \div 10

\* [...new Set(contents)]: the distinct contents, in order of first occurrence
RECURSIVE UniqueContent(_, _, _)
UniqueContent(list, i, seen) ==
  IF i > Len(list) THEN seen
  ELSE UniqueContent(list, i + 1,
         IF Member(seen, list[i].content) THEN seen ELSE Append(seen, list[i].content))

\* the sum of the amplitudes of a list of fragments
RECURSIVE TotalAmplitude(_)
TotalAmplitude(list) ==
  IF list = <<>> THEN 0 ELSE Head(list).amplitude + TotalAmplitude(Tail(list))

\* performHolographicReconstruction, the loop over the distinct contents: each
\* content whose matching fragments' amplitudes sum to more than 0.3 is appended,
\* followed by a space
RECURSIVE ReconstructFrom(_, _, _)
ReconstructFrom(list, contents, i) ==
  IF i > Len(contents) THEN <<>>
  ELSE LET content == contents[i]
           matching == SelectSeq(list,
                         LAMBDA f : IncludesHeadOf(f.content, content))
       IN  (IF TotalAmplitude(matching) * 10 > 3 * Unit THEN content \o <<Space>> ELSE <<>>)
           \o ReconstructFrom(list, contents, i + 1)

performHolographicReconstruction(list) ==
  Trim(ReconstructFrom(list, UniqueContent(list, 1, <<>>), 1))

\* lines 74-77: the reconstruction is cached under the key and returned
CacheResult(cache, cacheKey, reconstructed) ==
  [result |-> Text(reconstructed),
   cache |-> (cacheKey :> reconstructed) @@ cache,
   hit |-> FALSE]

\* lines 61-77 of reconstructInformation, once the relevant fragments are found:
\* null when there are none or when their viability is below requiredCoherence,
\* otherwise the reconstruction, which is cached
Reconstruct(cache, cacheKey, relevantFragments, requiredCoherence) ==
  IF Len(relevantFragments) = 0
    THEN [result |-> Null, cache |-> cache, hit |-> FALSE]
  ELSE IF assessReconstructionViability(relevantFragments) < requiredCoherence
    THEN [result |-> Null, cache |-> cache, hit |-> FALSE]
  ELSE CacheResult(cache, cacheKey, performHolographicReconstruction(relevantFragments))

\* reconstructInformation without the cache lookup of lines 54-56
reconstructInformationUncached(frags, cache, t, ctx, requiredCoherence) ==
  LET json == JsonOf(ctx)
  IN  IF json.kind # "string"
        THEN [result |-> Thrown, cache |-> cache, hit |-> FALSE]
      ELSE Reconstruct(cache, json.text, findRelevantFragments(frags, ctx, json.text, t),
                       requiredCoherence)

\* reconstructInformation(targetContext, requiredCoherence): the value returned,
\* the cache afterwards, and whether the value came from the cache.
\*   JSON.stringify throws for a circular context (line 53);
\*   for undefined it returns undefined, the cache has no such key, and
\*   findRelevantFragments throws on undefined.toLowerCase() (line 120).
reconstructInformation(frags, cache, t, ctx, requiredCoherence) ==
  LET json == JsonOf(ctx)
  IN  IF json.kind = "throws"
        THEN [result |-> Thrown, cache |-> cache, hit |-> FALSE]
      ELSE IF json.kind = "string" /\ json.text \in DOMAIN cache
        THEN [result |-> Text(cache[json.text]), cache |-> cache, hit |-> TRUE]
      ELSE IF json.kind = "undefined"
        THEN [result |-> Thrown, cache |-> cache, hit |-> FALSE]
      ELSE Reconstruct(cache, json.text, findRelevantFragments(frags, ctx, json.text, t),
                       requiredCoherence)

\* an empty reconstructionCache
EmptyCache == [key \in {} |-> <<>>]

\* flushAllMemory without reconstructionCache.clear()
flushAllMemoryKeepingCache(frags, cache) == [fragments |-> <<>>, cache |-> cache]

\* flushAllMemory of the store: the fragments and the cache afterwards
flushAllMemory(frags, cache) == [fragments |-> <<>>, cache |-> EmptyCache]

\* lines 334-347 of flushAllMemory: the persisted entries afterwards; the key is
\* removed only if cross-session is enabled
flushLocalStorage(blob, cfg) == IF cfg.crossSessionEnabled THEN <<>> ELSE blob

\* clearCache: the cache afterwards
clearCache(cache) == EmptyCache

----------------------------------------------------------------------------
(* HolographicWaveEngine.                                                  *)

\* extractTextContent: a string is returned as it is
extractTextContent(content) == content

\* the wave propagateHolographicWave builds
NewWave(id, t, content, sourceRegion, waveType, amplitude) ==
  [id |-> id,
   sourceRegion |-> sourceRegion,
   waveType |-> waveType,
   frequency |-> WaveFrequencies[waveType],
   phase |-> PhaseOf(extractTextContent(content), sourceRegion),
   amplitude |-> amplitude,
   content |-> content,
   memoryFragmentIds |-> <<>>,
   timestamp |-> t]

\* generateWaveId giving every wave of the engine the same id
generateWaveIdReused(call) == <<1, 0>>

\* generateWaveId, generateFragmentId: the ids a call makes; the code's ids
\* carry Date.now() and nine random characters
generateWaveId(call) == <<call, 0>>
generateFragmentId(call, k) == <<call, k>>

\* the forEach of propagateHolographicWave over the emergent patterns: each
\* insight is stored as a MEMORY fragment of region 'InterferenceEngine'
\* propagateHolographicWave without the storing of the emergent patterns
StoreNoInsights(frags, cfg, call, t, patterns, k) == frags

RECURSIVE StoreInsights(_, _, _, _, _, _)
StoreInsights(frags, cfg, call, t, patterns, k) ==
  IF k > Len(patterns) THEN frags
  ELSE StoreInsights(
         storeFragment(frags, cfg, generateFragmentId(call, k + 1), t, patterns[k].insight,
                       RegionInterferenceEngine, "MEMORY", patterns[k].confidence),
         cfg, call, t, patterns, k + 1)

\* the fragments propagateHolographicWave hands to storeFragment, in order: the
\* one linked to the wave, then one for each emergent pattern
StoredFragments(call, t, content, region, waveType, amplitude, patterns) ==
  <<NewFragment(generateFragmentId(call, 1), t, extractTextContent(content), region,
                waveType, amplitude)>>
  \o [k \in 1..Len(patterns) |->
        NewFragment(generateFragmentId(call, k + 1), t, patterns[k].insight,
                    RegionInterferenceEngine, "MEMORY", patterns[k].confidence)]

\* propagateHolographicWave with the interference processed before the new wave
\* is set in activeWaves
propagateHolographicWaveEarly(frags, waves, cfg, call, t, content, region, waveType, amplitude) ==
  LET wave == [NewWave(generateWaveId(call), t, content, region, waveType, amplitude)
                 EXCEPT !.memoryFragmentIds = <<generateFragmentId(call, 1)>>]
      Outcome(stored, active, currentWaves, interferenceResult) ==
        [fragments |-> StoreInsights(stored, cfg, call, t,
                                     interferenceResult.emergentPatterns, 1),
         activeWaves |-> active,
         waveId |-> wave.id,
         currentWaves |-> currentWaves,
         interferenceResult |-> interferenceResult]
  IN  Outcome(storeFragment(frags, cfg, generateFragmentId(call, 1), t,
                            extractTextContent(content), region, waveType, amplitude),
              Append(waves, wave),
              waves,
              processWaveInterference(waves, cfg, t))

\* propagateHolographicWave: the fragments and the active waves afterwards, the
\* wave id returned, the waves handed to processWaveInterference (currentWaves)
\* and what it returned
propagateHolographicWave(frags, waves, cfg, call, t, content, region, waveType, amplitude) ==
  LET wave == [NewWave(generateWaveId(call), t, content, region, waveType, amplitude)
                 EXCEPT !.memoryFragmentIds = <<generateFragmentId(call, 1)>>]
      Outcome(stored, active, currentWaves, interferenceResult) ==
        [fragments |-> StoreInsights(stored, cfg, call, t,
                                     interferenceResult.emergentPatterns, 1),
         activeWaves |-> active,
         waveId |-> wave.id,
         currentWaves |-> currentWaves,
         interferenceResult |-> interferenceResult]
  IN  Outcome(storeFragment(frags, cfg, generateFragmentId(call, 1), t,
                            extractTextContent(content), region, waveType, amplitude),
              Append(waves, wave),
              Append(waves, wave),
              processWaveInterference(Append(waves, wave), cfg, t))

\* getSystemState
getSystemState(frags, waves, cfg, t) ==
  LET State(interferenceResult) ==
        [activeWaves |-> Len(waves),
         fragmentCount |-> getFragmentCount(frags),
         systemCoherence |-> interferenceResult.systemCoherence,
         emergentBehaviors |-> Len(interferenceResult.emergentPatterns),
         interferencePatterns |-> Len(interferenceResult.interferenceResults)]
  IN  State(processWaveInterference(waves, cfg, t))

\* what gracefulDegradation returns
Degraded(success, method, confidence, reconstructed) ==
  [kind |-> "returns", success |-> success, method |-> method,
   confidence |-> confidence, reconstructed |-> reconstructed]

\* the test reconstructed !== null in place of truthiness
NotNull(value) == value.kind = "text"

\* the truthiness of a reconstruction: null and '' are falsy
Truthy(value) == value.kind = "text" /\ value.text # <<>>

\* gracefulDegradation without its try/catch: a rejected reconstruction reaches
\* the caller
gracefulDegradationUncaught(frags, cache, cfg, t, fallbackContext) ==
  LET Outcome(r) ==
        [attempt |-> r.result,
         cache |-> r.cache,
         result |->
           IF r.result.kind = "throws"
             THEN [kind |-> "throws", success |-> FALSE, method |-> "none",
                   confidence |-> 0, reconstructed |-> Undefined]
           ELSE IF r.result.kind = "text" /\ r.result.text # <<>>
             THEN Degraded(TRUE, "holographic_reconstruction", (6 * Unit) \div 10, r.result)
           ELSE Degraded(TRUE, "emergency_fallback", (3 * Unit) \div 10, Undefined)]
  IN  Outcome(reconstructInformation(frags, cache, t, fallbackContext, cfg.minimumCoherence))

\* gracefulDegradation: what the reconstruction gave (attempt), the value
\* returned, and the cache afterwards.  The await is inside the try, so a
\* rejected reconstruction is caught.
gracefulDegradation(frags, cache, cfg, t, fallbackContext) ==
  LET Outcome(r) ==
        [attempt |-> r.result,
         cache |-> r.cache,
         result |->
           IF r.result.kind = "throws"
             THEN Degraded(FALSE, "failed", 0, Undefined)
           ELSE IF Truthy(r.result)
             THEN Degraded(TRUE, "holographic_reconstruction", (6 * Unit) \div 10, r.result)
           ELSE Degraded(TRUE, "emergency_fallback", (3 * Unit) \div 10, Undefined)]
  IN  Outcome(reconstructInformation(frags, cache, t, fallbackContext, cfg.minimumCoherence))

\* the deltaTime values passed to updateWaveDecay, in milliseconds
DeltaTimes == {20 * 1000}

\* an updateWaveDecay that leaves the amplitude as it is
NoDecay(amplitude, deltaTime) == amplitude

\* a decay that never takes an amplitude below the removal threshold of 0.1
DecayToThreshold(amplitude, deltaTime) ==
  Max(Unit \div 10, (amplitude * ExpNegTenths(deltaTime \div 1000)) \div Unit)

\* wave.amplitude *= Math.exp(-deltaTime / 10000)
Decay(amplitude, deltaTime) == (amplitude * ExpNegTenths(deltaTime \div 1000)) \div Unit

\* an updateWaveDecay that deletes no wave
updateWaveDecayKeepAll(waves, deltaTime) ==
  LET decayed == [i \in 1..Len(waves) |->
                    [waves[i] EXCEPT !.amplitude = Decay(waves[i].amplitude, deltaTime)]]
  IN  [decayed |-> decayed, activeWaves |-> decayed]

\* updateWaveDecay: every wave decays; those below 0.1 are deleted.  The waves
\* as decayed (the deleted ones included) and the active waves afterwards.
updateWaveDecay(waves, deltaTime) ==
  LET decayed == [i \in 1..Len(waves) |->
                    [waves[i] EXCEPT !.amplitude = Decay(waves[i].amplitude, deltaTime)]]
  IN  [decayed |-> decayed,
       activeWaves |-> SelectSeq(decayed, LAMBDA w : ~(w.amplitude * 10 < Unit))]

----------------------------------------------------------------------------
(* The state machine.                                                      *)

\* a store (and an engine) as constructed, with nothing persisted to load
Init ==
  /\ now = 0
  /\ config \in Configs
  /\ fragments = <<>>
  /\ reconstructionCache = EmptyCache
  /\ activeWaves = <<>>
  /\ activePatterns = <<>>
  /\ emergentBehaviors = <<>>
  /\ localStorage = <<>>
  /\ nextId = 0
  /\ ret = [op |-> "constructor", at |-> 0]

\* Date.now() advances by 12 hours
Tick ==
  /\ now < MaxTicks * 12
  /\ now' = now + 12
  /\ UNCHANGED <<config, fragments, reconstructionCache, activeWaves, activePatterns, emergentBehaviors,
                 localStorage, nextId, ret>>

\* HolographicMemorySystem.storeFragment, called on the store
StoreFragment ==
  \E e \in StoreCatalogue :
    /\ nextId < MaxStores
    /\ nextId' = nextId + 1
    /\ fragments' = storeFragment(fragments, config, <<nextId + 1, 0>>, now, e.content,
                                  e.sourceRegion, e.waveType, e.amplitude)
    /\ localStorage' =
         PersistIfEnabled(localStorage, config,
                          NewFragment(<<nextId + 1, 0>>, now, e.content, e.sourceRegion,
                                      e.waveType, e.amplitude),
                          now)
    /\ ret' = [op |-> "storeFragment", id |-> <<nextId + 1, 0>>,
               region |-> e.sourceRegion,
               evicted |-> (Ids(fragments) \cup {<<nextId + 1, 0>>}) \ Ids(fragments')]
    /\ UNCHANGED <<now, config, reconstructionCache, activeWaves, activePatterns, emergentBehaviors>>

\* HolographicMemorySystem.reconstructInformation
ReconstructInformation ==
  \E name \in ContextNames, rc \in RequiredCoherences :
    \E r \in {reconstructInformation(fragments, reconstructionCache, now,
                                     Context(name), rc)} :
      /\ reconstructionCache' = r.cache
      /\ ret' = [op |-> "reconstructInformation", context |-> name,
                 requiredCoherence |-> rc, at |-> now, result |-> r.result,
                 hit |-> r.hit]
      /\ UNCHANGED <<now, config, fragments, activeWaves, activePatterns, emergentBehaviors, localStorage,
                     nextId>>

\* HolographicMemorySystem.getFragmentCount
GetFragmentCount ==
  /\ ret' = [op |-> "getFragmentCount", result |-> getFragmentCount(fragments)]
  /\ UNCHANGED <<now, config, fragments, reconstructionCache, activeWaves, activePatterns, emergentBehaviors,
                 localStorage, nextId>>

\* HolographicMemorySystem.flushAllMemory
FlushStore ==
  LET r == flushAllMemory(fragments, reconstructionCache)
  IN  /\ fragments' = r.fragments
      /\ reconstructionCache' = r.cache
      /\ localStorage' = flushLocalStorage(localStorage, config)
      /\ ret' = [op |-> "flushAllMemory"]
      /\ UNCHANGED <<now, config, activeWaves, activePatterns, emergentBehaviors, nextId>>

\* HolographicMemorySystem.clearCache
ClearCache ==
  /\ reconstructionCache' = clearCache(reconstructionCache)
  /\ ret' = [op |-> "clearCache"]
  /\ UNCHANGED <<now, config, fragments, activeWaves, activePatterns, emergentBehaviors, localStorage,
                 nextId>>

\* a HolographicMemorySystem used on its own
NextStore ==
  \/ Tick
  \/ StoreFragment
  \/ ReconstructInformation
  \/ GetFragmentCount
  \/ FlushStore
  \/ ClearCache

SpecStore == Init /\ [][NextStore]_vars

\* a store constructed while the persisted object holds records of earlier
\* sessions
InitPersisted ==
  /\ now = 0
  /\ config \in Configs
  /\ localStorage \in PersistedObjects
  /\ fragments = loadPersistedFragments(localStorage, config, now)
  /\ reconstructionCache = EmptyCache
  /\ activeWaves = <<>>
  /\ activePatterns = <<>>
  /\ emergentBehaviors = <<>>
  /\ nextId = 0
  /\ ret = [op |-> "constructor", at |-> 0]

\* holographicStore.updateConfig (or a reload of the page): a new engine and a
\* new store are constructed with the new configuration over the same
\* localStorage; the constructor of the store loads the persisted fragments
UpdateConfig ==
  \E cfg \in Configs :
    /\ config' = cfg
    /\ fragments' = loadPersistedFragments(localStorage, cfg, now)
    /\ reconstructionCache' = EmptyCache
    /\ activeWaves' = <<>>
    /\ activePatterns' = <<>>
    /\ emergentBehaviors' = <<>>
    /\ ret' = [op |-> "constructor", at |-> now]
    /\ UNCHANGED <<now, localStorage, nextId>>

\* stores constructed one after the other over one localStorage
NextPersisted ==
  \/ Tick
  \/ StoreFragment
  \/ ReconstructInformation
  \/ FlushStore
  \/ UpdateConfig

SpecPersisted == InitPersisted /\ [][NextPersisted]_vars

\* 'Rust makes excellent systems work'
TextRustMakes ==
  <<82, 117, 115, 116, 32, 109, 97, 107, 101, 115, 32, 101, 120, 99, 101, 108, 108, 101, 110, 116, 32, 115, 121, 115, 116, 101, 109, 115, 32, 119, 111, 114, 107>>
\* 'Go is fun'
TextGoFun ==
  <<71, 111, 32, 105, 115, 32, 102, 117, 110>>

\* 'UserInput'
RegionUserInput ==
  <<85, 115, 101, 114, 73, 110, 112, 117, 116>>

\* the waves handed to processWaveInterference, but for id and timestamp: five
\* contents, two regions, two wave types, amplitude 1.0; one wave from
\* 'UserInput' and one of amplitude 0.5
SignalPool ==
  [content : {TextRustGo, TextRustSystems, TextRustMakes, TextGoFun, <<>>},
   sourceRegion : {RegionOccipitalLobe, RegionTemporalLobe},
   waveType : {"MEMORY", "CONFIDENCE"},
   amplitude : {Unit}]
  \cup
  { [content |-> TextRustSystems, sourceRegion |-> RegionUserInput,
     waveType |-> "MEMORY", amplitude |-> Unit],
    [content |-> TextRustGo, sourceRegion |-> RegionOccipitalLobe,
     waveType |-> "MEMORY", amplitude |-> Unit \div 2] }

\* the lists of up to MaxSignals different waves, as propagateHolographicWave
\* builds them, the i-th with the id of the i-th call
SignalLists ==
  UNION {{[i \in 1..n |-> NewWave(generateWaveId(i), 0, list[i].content,
                                  list[i].sourceRegion, list[i].waveType,
                                  list[i].amplitude)] :
            list \in {l \in [1..n -> SignalPool] :
                        \A i, j \in 1..n : i # j => l[i] # l[j]}} : n \in 0..MaxSignals}

\* an InterferenceEngine as constructed, and the waves a caller holds
InitInterference ==
  /\ now = 0
  /\ config \in Configs
  /\ fragments = <<>>
  /\ reconstructionCache = EmptyCache
  /\ activeWaves \in SignalLists
  /\ activePatterns = <<>>
  /\ emergentBehaviors = <<>>
  /\ localStorage = <<>>
  /\ nextId = 0
  /\ ret = [op |-> "constructor", at |-> 0]

\* InterferenceEngine.processWaveInterference, called with the caller's waves
ProcessWaveInterference ==
  \E r \in {processWaveInterferenceOn(activePatterns, emergentBehaviors, activeWaves,
                                       config, now)} :
    /\ Len(r.emergentBehaviors) <= MaxBehaviors
    /\ activePatterns' = r.activePatterns
    /\ emergentBehaviors' = r.emergentBehaviors
    /\ ret' = [op |-> "processWaveInterference", at |-> now, waves |-> activeWaves,
               result |-> r.result]
    /\ UNCHANGED <<now, config, fragments, reconstructionCache, activeWaves, localStorage,
                   nextId>>

\* InterferenceEngine.getActivePatterns
GetActivePatterns ==
  /\ ret' = [op |-> "getActivePatterns", result |-> getActivePatterns(activePatterns)]
  /\ UNCHANGED <<now, config, fragments, reconstructionCache, activeWaves, activePatterns, emergentBehaviors,
                 localStorage, nextId>>

\* InterferenceEngine.getEmergentBehaviors
GetEmergentBehaviors ==
  /\ ret' = [op |-> "getEmergentBehaviors",
             result |-> getEmergentBehaviors(emergentBehaviors)]
  /\ UNCHANGED <<now, config, fragments, reconstructionCache, activeWaves, activePatterns,
                 emergentBehaviors, localStorage, nextId>>

\* the caller drops one of its waves (HolographicWaveEngine.updateWaveDecay,
\* line 140: activeWaves.delete)
DeleteWave ==
  \E i \in 1..Len(activeWaves) :
    /\ activeWaves' = SubSeq(activeWaves, 1, i - 1) \o SubSeq(activeWaves, i + 1, Len(activeWaves))
    /\ ret' = [op |-> "delete"]
    /\ UNCHANGED <<now, config, fragments, reconstructionCache, activePatterns,
                   emergentBehaviors, localStorage, nextId>>

\* InterferenceEngine.clearOldPatterns
ClearOldPatterns ==
  /\ activePatterns' = clearOldPatterns(activePatterns, now)
  /\ emergentBehaviors' = clearOldBehaviors(emergentBehaviors, now)
  /\ ret' = [op |-> "clearOldPatterns"]
  /\ UNCHANGED <<now, config, fragments, reconstructionCache, activeWaves, localStorage,
                 nextId>>

\* an InterferenceEngine used on its own
NextInterference ==
  \/ Tick
  \/ ProcessWaveInterference
  \/ GetActivePatterns
  \/ GetEmergentBehaviors
  \/ DeleteWave
  \/ ClearOldPatterns

SpecInterference == InitInterference /\ [][NextInterference]_vars

\* HolographicWaveEngine.propagateHolographicWave
PropagateUpTo(calls) ==
  \E e \in Catalogue :
    /\ nextId < calls
    /\ \E r \in {propagateHolographicWave(fragments, activeWaves, config, nextId + 1,
                                           now, e.content, e.sourceRegion, e.waveType,
                                           e.amplitude)} :
         /\ nextId' = nextId + 1
         /\ fragments' = r.fragments
         /\ activeWaves' = r.activeWaves
         /\ activePatterns' =
              SetPatterns(activePatterns, r.interferenceResult.interferenceResults, 1)
         /\ emergentBehaviors' =
              SetBehaviors(emergentBehaviors, r.interferenceResult.emergentPatterns)
         /\ localStorage' =
              PersistAll(localStorage, config,
                         StoredFragments(nextId + 1, now, e.content, e.sourceRegion,
                                         e.waveType, e.amplitude,
                                         r.interferenceResult.emergentPatterns),
                         1, now)
         /\ ret' = [op |-> "propagateHolographicWave", id |-> r.waveId, at |-> now,
                    currentWaves |-> r.currentWaves,
                    emergentPatterns |-> r.interferenceResult.emergentPatterns]
         /\ UNCHANGED <<now, config, reconstructionCache>>

\* propagateHolographicWave, called at most MaxWaves times on the engine
PropagateHolographicWave == PropagateUpTo(MaxWaves)

\* propagateHolographicWave, called at most MaxSeries times on the engine
PropagateInSeries == PropagateUpTo(MaxSeries)

\* HolographicWaveEngine.enhanceWithHolographicReconstruction, called with the
\* default requiredCoherence = 0.6
EnhanceWithHolographicReconstruction ==
  \E name \in ContextNames :
    \E rc \in {(6 * Unit) \div 10} :
      \E r \in {reconstructInformation(fragments, reconstructionCache, now,
                                       Context(name), rc)} :
        /\ reconstructionCache' = r.cache
        /\ ret' = [op |-> "enhanceWithHolographicReconstruction", context |-> name,
                   requiredCoherence |-> rc, at |-> now, result |-> r.result,
                   hit |-> r.hit]
        /\ UNCHANGED <<now, config, fragments, activeWaves, activePatterns, emergentBehaviors, localStorage,
                       nextId>>

\* HolographicWaveEngine.getSystemState
GetSystemState ==
  /\ \E r \in {processWaveInterferenceOn(activePatterns, emergentBehaviors, activeWaves,
                                          config, now)} :
       /\ Len(r.emergentBehaviors) <= Max(MaxBehaviors, Len(emergentBehaviors))
       /\ activePatterns' = r.activePatterns
       /\ emergentBehaviors' = r.emergentBehaviors
  /\ ret' = [op |-> "getSystemState",
             result |-> getSystemState(fragments, activeWaves, config, now)]
  /\ UNCHANGED <<now, config, fragments, reconstructionCache, activeWaves, localStorage,
                 nextId>>

\* HolographicWaveEngine.gracefulDegradation
GracefulDegradation ==
  \E name \in ContextNames :
    \E r \in {gracefulDegradation(fragments, reconstructionCache, config, now,
                                  Context(name))} :
      /\ reconstructionCache' = r.cache
      /\ ret' = [op |-> "gracefulDegradation", context |-> name, at |-> now,
                 attempt |-> r.attempt, result |-> r.result]
      /\ UNCHANGED <<now, config, fragments, activeWaves, activePatterns, emergentBehaviors, localStorage,
                     nextId>>

\* HolographicWaveEngine.updateWaveDecay; ret keeps the waves as they were and
\* as they were decayed
UpdateWaveDecay ==
  \E deltaTime \in DeltaTimes :
    LET r == updateWaveDecay(activeWaves, deltaTime)
    IN  /\ activeWaves' = r.activeWaves
        /\ ret' = [op |-> "updateWaveDecay", deltaTime |-> deltaTime,
                   before |-> activeWaves, after |-> r.decayed]
        /\ activePatterns' = clearOldPatterns(activePatterns, now)
        /\ emergentBehaviors' = clearOldBehaviors(emergentBehaviors, now)
        /\ UNCHANGED <<now, config, fragments, reconstructionCache, localStorage, nextId>>

\* HolographicWaveEngine.flushAllMemory
FlushAllMemory ==
  LET r == flushAllMemory(fragments, reconstructionCache)
  IN  /\ fragments' = r.fragments
      /\ reconstructionCache' = r.cache
      /\ activeWaves' = <<>>
      /\ localStorage' = flushLocalStorage(localStorage, config)
      /\ ret' = [op |-> "flushAllMemory"]
      /\ UNCHANGED <<now, config, activePatterns, emergentBehaviors, nextId>>

\* HolographicWaveEngine.cleanup
Cleanup ==
  /\ activeWaves' = <<>>
  /\ reconstructionCache' = clearCache(reconstructionCache)
  /\ ret' = [op |-> "cleanup"]
  /\ UNCHANGED <<now, config, fragments, activePatterns, emergentBehaviors, localStorage, nextId>>

\* a HolographicWaveEngine and the store it owns
Next ==
  \/ Tick
  \/ PropagateHolographicWave
  \/ EnhanceWithHolographicReconstruction
  \/ GetSystemState
  \/ GracefulDegradation
  \/ UpdateWaveDecay
  \/ FlushAllMemory
  \/ Cleanup

Spec == Init /\ [][Next]_vars

\* an engine that is given a series of waves and decay ticks
NextSeries ==
  \/ Tick
  \/ PropagateInSeries
  \/ UpdateWaveDecay
  \/ GetSystemState

SpecSeries == Init /\ [][NextSeries]_vars

\* the same engine when its owner keeps calling updateWaveDecay: a decay tick
\* that would change something is not postponed for ever
SpecDecay == Init /\ [][NextSeries]_vars /\ WF_vars(UpdateWaveDecay)


----------------------------------------------------------------------------
(* Properties of the store (SpecStore).                                    *)

\* the ids of a list of fragments, in the order of the list
IdList(list) == [i \in 1..Len(list) |-> list[i].id]

\* C1: a storeFragment into a region that already holds maxFragmentsPerRegion
\* fragments leaves exactly that many fragments of the region, and they are the
\* most recently created ones: the oldest of the region is gone, the new
\* fragment is kept.
C1_EvictionKeepsNewest ==
  [][(/\ nextId' = nextId + 1
      /\ ret'.op = "storeFragment"
      /\ Len(getFragmentsByRegion(fragments, ret'.region)) = config.maxFragmentsPerRegion)
     => IdList(getFragmentsByRegion(fragments', ret'.region))
          = Append(Tail(IdList(getFragmentsByRegion(fragments, ret'.region))), ret'.id)]_vars

\* the second of two calls of reconstructInformation in a row (nothing but the
\* clock may move between them) with the same context
SecondCall ==
  /\ now' = now
  /\ ret.op = "reconstructInformation"
  /\ ret'.op = "reconstructInformation"
  /\ ret'.context = ret.context
  /\ fragments' = fragments

\* C2 as stated: two consecutive reconstructInformation calls with the same
\* context and an unchanged fragment set return identical results.
C2_SameContextSameResult == [][SecondCall => ret'.result = ret.result]_vars

\* C2: two consecutive reconstructInformation calls with the same context and an
\* unchanged fragment set return identical results when the first returned a
\* string (the second is then served from the cache), or when both are made with
\* the same requiredCoherence at the same clock reading.
C2_CachedOrSameCall ==
  [][SecondCall =>
       /\ ret.result.kind = "text" => ret'.hit /\ ret'.result = ret.result
       /\ (ret'.requiredCoherence = ret.requiredCoherence /\ ret'.at = ret.at)
            => ret'.result = ret.result]_vars

\* a reconstruction served from the cache while fragments are stored
C2_Witness ==
  /\ ret.op = "reconstructInformation"
  /\ ret.hit
  /\ ret.result.kind = "text"
  /\ fragments # <<>>

\* the reconstructInformation call in ret has just returned: the clock has not
\* moved, and its context serializes to a string
JustReconstructed ==
  /\ ret.op = "reconstructInformation"
  /\ ret.at = now
  /\ JsonOf(Context(ret.context)).kind = "string"

\* the fragments relevant to the context of the call in ret, now
RelevantNow ==
  findRelevantFragments(fragments, Context(ret.context),
                        JsonOf(Context(ret.context)).text, now)

\* C3: reconstructInformation returns null whenever no fragment is relevant or
\* the viability of the relevant fragments is below the requiredCoherence of the
\* call, whatever calls were made before.
C3_NullBelowRequiredCoherence ==
  (/\ JustReconstructed
   /\ \/ Len(RelevantNow) = 0
      \/ assessReconstructionViability(RelevantNow) < ret.requiredCoherence)
  => ret.result = Null

\* C4 as stated: with no fragment in the store getFragmentCount returns 0 and
\* reconstructInformation returns null for every context.
C4_EmptyStoreGivesNull ==
  fragments = <<>> =>
    /\ ret.op = "getFragmentCount" => ret.result = 0
    /\ ret.op = "reconstructInformation" => ret.result = Null

\* C4: with no fragment in the store (fresh, or flushed) getFragmentCount
\* returns 0, and reconstructInformation returns null for every context that
\* JSON.stringify serializes to a string; for undefined and for a circular
\* context the call throws.
C4_EmptyStoreGivesNullOrThrows ==
  fragments = <<>> =>
    /\ ret.op = "getFragmentCount" => ret.result = 0
    /\ ret.op = "reconstructInformation" =>
         ret.result = IF JsonOf(Context(ret.context)).kind = "string" THEN Null ELSE Thrown

\* a reconstruction for a serializable context on a store that was filled and
\* then flushed
C4_Witness ==
  /\ ret.op = "reconstructInformation"
  /\ ret.context = "query"
  /\ fragments = <<>>
  /\ nextId > 0

----------------------------------------------------------------------------
(* Properties of the engine (Spec).                                        *)

\* C5: gracefulDegradation never throws; when the reconstruction inside it
\* fails, it returns {success: false, method: 'failed', confidence: 0.0}, and
\* the fragments and the active waves are as they were before the call.
C5_DegradationNeverThrows ==
  /\ [](ret.op = "gracefulDegradation" =>
          /\ ret.result.kind = "returns"
          /\ ret.attempt.kind = "throws" =>
               ret.result = Degraded(FALSE, "failed", 0, Undefined))
  /\ [][(ret'.op = "gracefulDegradation" /\ ret'.attempt.kind = "throws")
          => (fragments' = fragments /\ activeWaves' = activeWaves)]_vars

\* a gracefulDegradation whose reconstruction failed, on an engine that holds
\* fragments and waves
C5_Witness ==
  /\ ret.op = "gracefulDegradation"
  /\ ret.attempt.kind = "throws"
  /\ fragments # <<>>
  /\ activeWaves # <<>>

\* C6 as stated: whenever the reconstruction of gracefulDegradation returns a
\* string, whatever it holds, the result is {success: true,
\* method: 'holographic_reconstruction', confidence: 0.6, reconstructed: <it>};
\* 'emergency_fallback' is returned only when the reconstruction returned null.
C6_AnyTextIsReconstruction ==
  ret.op = "gracefulDegradation" =>
    /\ ret.attempt.kind = "text" =>
         ret.result = Degraded(TRUE, "holographic_reconstruction", (6 * Unit) \div 10,
                               ret.attempt)
    /\ ret.result.method = "emergency_fallback" => ret.attempt = Null

\* C6: whenever the reconstruction of gracefulDegradation returns a non-empty
\* string, the result is {success: true, method: 'holographic_reconstruction',
\* confidence: 0.6, reconstructed: <it>}; when it returns null or the empty
\* string, the result is {success: true, method: 'emergency_fallback',
\* confidence: 0.3} without a reconstructed field.
C6_NonEmptyTextIsReconstruction ==
  ret.op = "gracefulDegradation" =>
    /\ (ret.attempt.kind = "text" /\ ret.attempt.text # <<>>) =>
         ret.result = Degraded(TRUE, "holographic_reconstruction", (6 * Unit) \div 10,
                               ret.attempt)
    /\ (ret.attempt = Null \/ ret.attempt = Text(<<>>)) =>
         ret.result = Degraded(TRUE, "emergency_fallback", (3 * Unit) \div 10, Undefined)

\* a gracefulDegradation whose reconstruction returned the empty string
C6_Witness ==
  /\ ret.op = "gracefulDegradation"
  /\ ret.attempt = Text(<<>>)
  /\ ret.result.method = "emergency_fallback"

\* the fragments relevant to the fallback context of the call in ret, now
RelevantToFallback ==
  findRelevantFragments(fragments, Context(ret.context),
                        JsonOf(Context(ret.context)).text, now)

\* C7: when the store has fragments and the viability of those relevant to the
\* fallback context is below config.degradation.minimumCoherence,
\* gracefulDegradation returns {success: true, method: 'emergency_fallback',
\* confidence: 0.3} without a reconstructed field, whatever calls were made
\* before.
C7_FallbackBelowMinimumCoherence ==
  (/\ ret.op = "gracefulDegradation"
   /\ ret.at = now
   /\ JsonOf(Context(ret.context)).kind = "string"
   /\ fragments # <<>>
   /\ assessReconstructionViability(RelevantToFallback) < config.minimumCoherence)
  => ret.result = Degraded(TRUE, "emergency_fallback", (3 * Unit) \div 10, Undefined)

\* C8 as stated: updateWaveDecay(deltaTime > 0) leaves every wave's amplitude
\* strictly smaller than it was; the waves whose amplitude has dropped below 0.1
\* are removed and the others stay active.
C8_DecayStrict ==
  ret.op = "updateWaveDecay" =>
    \A i \in 1..Len(ret.before) :
      /\ ret.after[i].amplitude < ret.before[i].amplitude
      /\ ret.after[i].amplitude * 10 < Unit <=> ret.before[i].id \notin Ids(activeWaves)

\* C8: updateWaveDecay(deltaTime > 0) multiplies every wave's amplitude by
\* exp(-deltaTime / 10000), which leaves an amplitude above 0 strictly smaller
\* and an amplitude of 0 at 0; the waves whose amplitude has dropped below 0.1
\* are removed and the others stay active with the decayed amplitude.
C8_DecayStrictAboveZero ==
  ret.op = "updateWaveDecay" =>
    \A i \in 1..Len(ret.before) :
      /\ ret.after[i].amplitude
           = (ret.before[i].amplitude * ExpNegTenths(ret.deltaTime \div 1000)) \div Unit
      /\ ret.before[i].amplitude > 0 => ret.after[i].amplitude < ret.before[i].amplitude
      /\ ret.before[i].amplitude = 0 => ret.after[i].amplitude = 0
      /\ ret.after[i].amplitude * 10 < Unit <=> ret.before[i].id \notin Ids(activeWaves)
      /\ ret.before[i].id \in Ids(activeWaves) =>
           \E k \in 1..Len(activeWaves) : activeWaves[k] = ret.after[i]

\* an updateWaveDecay that removed a wave and kept another
C8_Witness ==
  /\ ret.op = "updateWaveDecay"
  /\ Len(activeWaves) > 0
  /\ Len(activeWaves) < Len(ret.before)

\* C9: the systemCoherence of processWaveInterference, and the one getSystemState
\* reports, lies in [0, 1], and it is 0.5 exactly when no interference pattern is
\* retained.
C9_SystemCoherence ==
  LET r == processWaveInterference(activeWaves, config, now)
  IN  /\ r.systemCoherence >= 0
      /\ r.systemCoherence <= Unit
      /\ r.systemCoherence = Unit \div 2 <=> Len(r.interferenceResults) = 0
      /\ ret.op = "getSystemState" =>
           /\ ret.result.systemCoherence >= 0
           /\ ret.result.systemCoherence <= Unit
           /\ ret.result.systemCoherence = Unit \div 2
                <=> ret.result.interferencePatterns = 0

\* a getSystemState that found a retained interference pattern
C9_Witness ==
  /\ ret.op = "getSystemState"
  /\ ret.result.interferencePatterns > 0

\* the waves and the fragments of the engine
Carriers ==
  {activeWaves[i] : i \in 1..Len(activeWaves)} \cup {fragments[i] : i \in 1..Len(fragments)}

\* C10: every wave and every fragment carries the frequency of the static table
\* WaveFrequencies for its wave type, whatever config.frequencies holds, and a
\* phase in [0, 2 pi) (0..627 hundredths); the same content and region always
\* give the same phase.
C10_FrequencyAndPhase ==
  /\ \A x \in Carriers :
       /\ x.frequency = WaveFrequencies[x.waveType]
       /\ x.phase >= 0
       /\ x.phase < 628
  /\ \A x, y \in Carriers :
       (x.content = y.content /\ x.sourceRegion = y.sourceRegion) => x.phase = y.phase

\* a wave and its fragment of a type whose config.frequencies entry differs from
\* the static table, beside another wave of the same content and region
C10_Witness ==
  /\ \E x \in Carriers : config.frequencies[x.waveType] # WaveFrequencies[x.waveType]
  /\ \E i, j \in 1..Len(activeWaves) :
       /\ i < j
       /\ activeWaves[i].content = activeWaves[j].content
       /\ activeWaves[i].sourceRegion = activeWaves[j].sourceRegion
  /\ \E i \in 1..Len(activeWaves), k \in 1..Len(fragments) :
       /\ fragments[k].id = <<activeWaves[i].id[1], 1>>
       /\ fragments[k].phase = activeWaves[i].phase

----------------------------------------------------------------------------
(* Properties of the engine: propagation.                                  *)

\* a step that is a call of propagateHolographicWave
Propagated == nextId' = nextId + 1 /\ ret'.op = "propagateHolographicWave"

\* C11 as stated: the interference recomputation of a propagateHolographicWave
\* call observes every signal created by the calls that returned before it (the
\* calls 1 .. n - 1 of the instance) and the signal being propagated (call n),
\* whatever updateWaveDecay, getSystemState, flushAllMemory and cleanup calls
\* came between.
C11_ObservesEverySignalCreated ==
  ret.op = "propagateHolographicWave" =>
    \A call \in 1..ret.id[1] : generateWaveId(call) \in Ids(ret.currentWaves)

\* C11 amended: the interference recomputation of a propagateHolographicWave
\* call observes the signals that are active when the call is made (those
\* created by earlier calls and not removed since), in their order, followed by
\* the signal being propagated, and nothing else.
C11_ObservesEveryActiveSignal ==
  [][Propagated =>
       /\ Len(ret'.currentWaves) = Len(activeWaves) + 1
       /\ \A i \in 1..Len(activeWaves) : ret'.currentWaves[i] = activeWaves[i]
       /\ ret'.currentWaves[Len(activeWaves) + 1].id = ret'.id]_vars

\* a call observed the signal of an earlier call together with its own
C11_Witness ==
  /\ ret.op = "propagateHolographicWave"
  /\ Len(ret.currentWaves) >= 2
  /\ ret.currentWaves[1].id # ret.id

\* the signal a propagateHolographicWave step has put last in the active set
NewSignal == activeWaves'[Len(activeWaves')]

\* the fragment a signal points back to is stored and agrees with the signal
LinkedTo(fragment, wave) ==
  /\ wave.memoryFragmentIds = <<fragment.id>>
  /\ fragment.sourceRegion = wave.sourceRegion
  /\ fragment.waveType = wave.waveType
  /\ fragment.frequency = wave.frequency
  /\ fragment.phase = wave.phase
  /\ fragment.importance = wave.amplitude

\* C12: a propagateHolographicWave call adds exactly one signal to the active
\* set, the one whose id it returns, and when it returns the store holds the one
\* fragment that the signal's back-reference list names, with the signal's
\* region, type, frequency, phase and amplitude (as importance).
C12_LinkedFragmentPresent ==
  [][Propagated =>
       /\ Len(activeWaves') = Len(activeWaves) + 1
       /\ \A i \in 1..Len(activeWaves) : activeWaves'[i] = activeWaves[i]
       /\ NewSignal.id = ret'.id
       /\ Len(NewSignal.memoryFragmentIds) = 1
       /\ \E i \in 1..Len(fragments') : LinkedTo(fragments'[i], NewSignal)]_vars

\* the fragments of the region 'InterferenceEngine' that a step has put in the
\* store, and those it has put in the persisted blob
NewInsights ==
  {fragments'[i] : i \in {j \in 1..Len(fragments') :
       /\ fragments'[j].sourceRegion = RegionInterferenceEngine
       /\ fragments'[j].id \notin Ids(fragments)}}

NewPersistedInsights ==
  {localStorage'[i].fragment : i \in {j \in 1..Len(localStorage') :
       /\ localStorage'[j].kind = "fragment"
       /\ localStorage'[j].fragment.sourceRegion = RegionInterferenceEngine
       /\ localStorage'[j].key \notin {localStorage[h].key : h \in 1..Len(localStorage)}}}

\* the fragment is the one stored for the k-th emergent pattern of the call
IsInsightOf(fragment, call, pattern, k) ==
  /\ fragment.id = generateFragmentId(call, k + 1)
  /\ fragment.content = pattern.insight
  /\ fragment.waveType = "MEMORY"
  /\ fragment.sourceRegion = RegionInterferenceEngine
  /\ fragment.importance = pattern.confidence

----------------------------------------------------------------------------
(* Properties of the store: persistence (SpecPersisted).                   *)

\* the store has just been constructed with cross-session persistence enabled:
\* fragments holds what loadPersistedFragments loaded from localStorage at ret.at
JustLoaded == ret.op = "constructor" /\ config.crossSessionEnabled

\* the persisted records that are fragments with a timestamp
PersistedFragments ==
  {localStorage[i].fragment : i \in {j \in 1..Len(localStorage) :
                                       localStorage[j].kind = "fragment"}}

\* the persisted fragment, as it is in memory after a load at time t
Decayed(fragment, t) ==
  [fragment EXCEPT !.amplitude = (fragment.amplitude * ExpNegWeek(t - fragment.timestamp))
                                 \div Unit]

\* C14: a store constructed with cross-session persistence enabled holds no
\* persisted fragment that is more than 7 days old, whatever its amplitude; the
\* fragments it holds are persisted ones with the amplitude multiplied by
\* exp(-age / 7 days), and that amplitude is above 0.1.
C14_NothingOlderThanSevenDaysLoaded ==
  JustLoaded =>
    \A i \in 1..Len(fragments) :
      /\ ret.at - fragments[i].timestamp <= SevenDays
      /\ \E p \in PersistedFragments : fragments[i] = Decayed(p, ret.at)
      /\ fragments[i].amplitude * 10 > Unit

\* the persisted fragment is one a load at time t has to restore: not more than
\* 7 days old, and its decayed amplitude above 0.1
Loadable(fragment, t) ==
  /\ t - fragment.timestamp <= SevenDays
  /\ Decayed(fragment, t).amplitude * 10 > Unit

\* C15: whatever malformed records the persisted object holds, and wherever,
\* a store constructed with persistence enabled holds every valid persisted
\* fragment that is not expired; and a storeFragment call has put its fragment
\* in memory (where only the region cap may have removed it) and returned its
\* id.
C15_FaultsIsolatedPerRecord ==
  /\ JustLoaded =>
       \A p \in PersistedFragments :
         Loadable(p, ret.at) => Member(fragments, Decayed(p, ret.at))
  /\ ret.op = "storeFragment" =>
       ret.id \in Ids(fragments) \cup ret.evicted

\* C16: flushAllMemory leaves no fragment in memory, an empty reconstruction
\* cache and an empty persisted object, whatever the configuration, and a
\* store constructed next over the same localStorage loads nothing.
C16_FlushPurgesPersisted ==
  [][/\ ret'.op = "flushAllMemory" =>
          /\ fragments' = <<>>
          /\ reconstructionCache' = EmptyCache
          /\ localStorage' = <<>>
     /\ (ret.op = "flushAllMemory" /\ ret'.op = "constructor") => fragments' = <<>>]_vars

----------------------------------------------------------------------------
(* Properties of the engine: the life of a signal.                         *)

\* C17: a signal enters the active set only with an id that no signal of the
\* engine has had before (the ids given so far are those of the calls
\* 1 .. nextId), so a removed signal's id never comes back; and the amplitude of
\* a signal that stays in the active set changes only in an updateWaveDecay
\* step.
C17_RemovalIsTerminal ==
  [][/\ \A i \in 1..Len(activeWaves') :
          /\ activeWaves'[i].id[1] <= nextId'
          /\ activeWaves'[i].id \in Ids(activeWaves) \/ activeWaves'[i].id[1] > nextId
     /\ \A i \in 1..Len(activeWaves) : \A j \in 1..Len(activeWaves') :
          (activeWaves'[j].id = activeWaves[i].id
             /\ activeWaves'[j].amplitude # activeWaves[i].amplitude)
          => ret'.op = "updateWaveDecay" /\ ret'.before = activeWaves]_vars

\* a signal has been propagated while the signal of the first call, removed
\* before, stays out of the active set
C17_Witness ==
  /\ ret.op = "propagateHolographicWave"
  /\ ret.id[1] = 2
  /\ Ids(activeWaves) = {ret.id}

\* C18: a fragment that the region cap has evicted, or that flushAllMemory has
\* removed, is not in the memory of the store constructed next over the same
\* localStorage: the store constructed after an evicting storeFragment call does
\* not hold the evicted fragment, and after a flushAllMemory call a store
\* constructed with persistence enabled would load none of the removed ones.
C18_RemovedFragmentsStayRemoved ==
  [][/\ (ret.op = "storeFragment" /\ ret'.op = "constructor") =>
          \A id \in ret.evicted : id \notin Ids(fragments')
     /\ (ret'.op = "flushAllMemory" /\ fragments' = <<>>) =>
          \A id \in Ids(fragments) :
            id \notin Ids(loadPersistedFragments(localStorage', ConfigDefault, now'))]_vars

----------------------------------------------------------------------------
(* Properties of the InterferenceEngine (SpecInterference).                *)

\* s ends with suffix; s has sub somewhere in it
EndsWith(s, suffix) ==
  Len(suffix) <= Len(s) /\ SubSeq(s, Len(s) - Len(suffix) + 1, Len(s)) = suffix
Contains(s, sub) ==
  \E k \in 0..(Len(s) - Len(sub)) : SubSeq(s, k + 1, k + Len(sub)) = sub

\* the whitespace-delimited, case-folded tokens longer than 3 characters that
\* text1 shares with text2, in the order of text1
SharedTokens(text1, text2) ==
  SelectSeq(SplitWhite(ToLowerCase(text1)),
            LAMBDA word : Len(word) > 3 /\ Member(SplitWhite(ToLowerCase(text2)), word))

\* the emergent content is a text whose list of common elements, after ': ', is
\* made of the first shared tokens, 3 at most
NamesTokens(emergentContent, shared) ==
  /\ emergentContent.kind = "text"
  /\ EndsWith(emergentContent.text,
              <<58, 32>> \o Join(SubSeq(shared, 1, Min(3, Len(shared))), CommaSpace))
  /\ Contains(emergentContent.text, shared[1])

\* the wave with the id in the list handed to processWaveInterference
WaveOf(id) == ret.waves[CHOOSE i \in 1..Len(ret.waves) : ret.waves[i].id = id]

\* the tokens shared by the two waves of a retained pattern
SharedBy(pattern) ==
  SharedTokens(extractText(WaveOf(pattern.waveIds[1]).content),
               extractText(WaveOf(pattern.waveIds[2]).content))

\* the patterns the processWaveInterference call in ret has retained
Retained ==
  IF ret.op = "processWaveInterference"
  THEN {ret.result.interferenceResults[k] : k \in 1..Len(ret.result.interferenceResults)}
  ELSE {}

\* C19 as stated: a retained pattern whose waves' texts share a token longer
\* than 3 characters has an emergentContent naming the shared tokens, 3 at
\* most; a retained pattern whose waves share no such token has none.
C19_RetainedPairNamesSharedTokens ==
  \A x \in Retained :
    IF Len(SharedBy(x)) > 0
    THEN NamesTokens(x.emergentContent, SharedBy(x))
    ELSE x.emergentContent.kind = "undefined"

\* C19 amended: a retained pattern whose coherenceLevel is at least 0.5 and
\* whose waves' texts share a token longer than 3 characters has an
\* emergentContent naming the shared tokens, 3 at most; a retained pattern below
\* 0.5, or whose waves share no such token, has none.
C19_CoherentPairNamesSharedTokens ==
  \A x \in Retained :
    IF Len(SharedBy(x)) > 0 /\ x.coherenceLevel * 2 >= Unit
    THEN NamesTokens(x.emergentContent, SharedBy(x))
    ELSE x.emergentContent.kind = "undefined"

\* 'rust'
TokenRust == <<114, 117, 115, 116>>

\* Scenario A: a pattern of 'Rust and Go are great' and 'Rust is excellent for
\* systems work' is retained with an emergentContent that contains 'rust'
C19_Witness ==
  \E x \in Retained :
    /\ WaveOf(x.waveIds[1]).content = TextRustGo
    /\ WaveOf(x.waveIds[2]).content = TextRustSystems
    /\ x.emergentContent.kind = "text"
    /\ Contains(x.emergentContent.text, TokenRust)

\* how many of the patterns of a list are of the pair of waves
CountOf(patterns, wave1, wave2) ==
  Cardinality({k \in 1..Len(patterns) : patterns[k].waveIds = <<wave1.id, wave2.id>>})

\* the pair of waves i and j of the list as the call in ret has to treat it: one
\* pattern returned if i < j and the pair's coherenceLevel exceeds the
\* constructive threshold, else none returned and none cached
TreatedOnce(i, j, coherenceLevel) ==
  IF i < j /\ coherenceLevel > config.constructiveThreshold
  THEN CountOf(ret.result.interferenceResults, ret.waves[i], ret.waves[j]) = 1
  ELSE /\ CountOf(ret.result.interferenceResults, ret.waves[i], ret.waves[j]) = 0
       /\ CountOf(activePatterns, ret.waves[i], ret.waves[j]) = 0

\* C20: processWaveInterference returns one pattern for each pair of waves i < j
\* whose coherenceLevel exceeds the constructive threshold, and none for any
\* other pair, which is not in the pattern cache either; every pattern that
\* getActivePatterns returns has a coherenceLevel above the constructive
\* threshold.
C20_RetainedIffAboveThreshold ==
  /\ \A k \in 1..Len(getActivePatterns(activePatterns)) :
       getActivePatterns(activePatterns)[k].coherenceLevel > config.constructiveThreshold
  /\ ret.op = "processWaveInterference" =>
       \A i, j \in 1..Len(ret.waves) :
         TreatedOnce(i, j, calculateInterference(ret.waves[i], ret.waves[j],
                                                 ret.at).coherenceLevel)

\* a call on two waves has retained their pattern, which is in the cache
C20_Witness ==
  /\ ret.op = "processWaveInterference"
  /\ Len(ret.waves) = 2
  /\ Len(ret.result.interferenceResults) = 1
  /\ getActivePatterns(activePatterns) = ret.result.interferenceResults

\* the emergent behaviors the processWaveInterference call in ret has returned
Behaviors ==
  IF ret.op = "processWaveInterference"
  THEN {ret.result.emergentPatterns[k] : k \in 1..Len(ret.result.emergentPatterns)}
  ELSE {}

\* how many of the returned behaviors the pattern has triggered
BehaviorsOf(pattern) ==
  Cardinality({k \in 1..Len(ret.result.emergentPatterns) :
                 ret.result.emergentPatterns[k].triggerPattern = pattern.waveIds})

\* the behaviorType of a pattern by the precedence SYNTHESIS, INSIGHT,
\* CONTRADICTION, CORRELATION (0.8, 0.7, 0.6 of the unit)
TypeByPrecedence(pattern) ==
  CASE /\ pattern.coherenceLevel > 8000
       /\ pattern.constructive
       /\ pattern.resultantAmplitude > 7000 -> "SYNTHESIS"
    [] /\ ~(pattern.coherenceLevel > 8000 /\ pattern.constructive
             /\ pattern.resultantAmplitude > 7000)
       /\ pattern.coherenceLevel > 7000
       /\ pattern.constructive -> "INSIGHT"
    [] /\ ~(pattern.coherenceLevel > 7000 /\ pattern.constructive)
       /\ ~pattern.constructive
       /\ pattern.coherenceLevel > 6000 -> "CONTRADICTION"
    [] OTHER -> "CORRELATION"

\* C21: a retained pattern gives one emergent behavior if its coherenceLevel
\* exceeds the emergent threshold and it has an emergentContent, and none
\* otherwise; the behavior's confidence is that coherenceLevel, its insight the
\* emergentContent, its behaviorType the first that applies of SYNTHESIS
\* (coherence > 0.8, constructive, resultantAmplitude > 0.7), INSIGHT
\* (coherence > 0.7, constructive), CONTRADICTION (not constructive,
\* coherence > 0.6), CORRELATION.
C21_EmergentBehaviors ==
  /\ \A x \in Retained :
       BehaviorsOf(x) = IF /\ x.coherenceLevel > config.emergentThreshold
                           /\ x.emergentContent.kind = "text"
                        THEN 1 ELSE 0
  /\ \A b \in Behaviors :
       \E x \in Retained :
         /\ b.triggerPattern = x.waveIds
         /\ b.confidence = x.coherenceLevel
         /\ b.insight = x.emergentContent.text
         /\ b.behaviorType = TypeByPrecedence(x)

\* a call has returned a behavior of type SYNTHESIS
C21_Witness == \E b \in Behaviors : b.behaviorType = "SYNTHESIS"

\* what a result of processWaveInterference says of the waves: the patterns
\* (pair, coherence, constructive flag, emergent content), the behaviors (type,
\* confidence, insight) and the system coherence, without ids and time stamps
Scoring(result) ==
  [patterns |-> [k \in 1..Len(result.interferenceResults) |->
                   <<result.interferenceResults[k].waveIds,
                     result.interferenceResults[k].coherenceLevel,
                     result.interferenceResults[k].constructive,
                     result.interferenceResults[k].emergentContent>>],
   behaviors |-> [k \in 1..Len(result.emergentPatterns) |->
                    <<result.emergentPatterns[k].behaviorType,
                      result.emergentPatterns[k].confidence,
                      result.emergentPatterns[k].insight>>],
   systemCoherence |-> result.systemCoherence]

----------------------------------------------------------------------------
(* C23: what a reconstruction includes.                                    *)

\* the sum of the importances of a list of fragments
RECURSIVE TotalImportance(_)
TotalImportance(list) ==
  IF list = <<>> THEN 0 ELSE Head(list).importance + TotalImportance(Tail(list))

\* each distinct content once, in order of first occurrence, followed by a
\* space, when the importances of the fragments matching its first 50
\* characters sum to more than 0.3
RECURSIVE IncludedByImportance(_, _, _)
IncludedByImportance(list, contents, i) ==
  IF i > Len(contents) THEN <<>>
  ELSE (IF TotalImportance(SelectSeq(list, LAMBDA f : IncludesHeadOf(f.content, contents[i])))
            * 10 > 3 * Unit
          THEN contents[i] \o <<Space>> ELSE <<>>)
       \o IncludedByImportance(list, contents, i + 1)

\* the relevant fragments of the reconstruction that ret records
RelevantToLast ==
  findRelevantFragments(fragments, Context(ret.context), JsonOf(Context(ret.context)).text,
                        ret.at)

\* a reconstruction has just been computed (not served from the cache) and has
\* returned a text
Reconstructed ==
  /\ ret.op = "reconstructInformation"
  /\ ~ret.hit
  /\ ret.result.kind = "text"

\* C23: a reconstruction that succeeds returns the distinct contents of the
\* relevant fragments, each at most once, and a content is in the text exactly
\* when the importances of the relevant fragments matching its first 50
\* characters sum to more than 0.3; also when the fragments were loaded from
\* persistence with a decayed amplitude
C23_IncludedBySummedImportance ==
  Reconstructed =>
    ret.result.text
      = Trim(IncludedByImportance(RelevantToLast, UniqueContent(RelevantToLast, 1, <<>>), 1))

----------------------------------------------------------------------------
(* C24: the reconstruction cache and the fragment store.                   *)

\* what the call in ret returns when it is computed from the fragments in the
\* store, without the cache lookup
FreshResult ==
  reconstructInformationUncached(fragments, reconstructionCache, now, Context(ret.context),
                                 ret.requiredCoherence).result

\* C24: the value reconstructInformation returns for a context is the value a
\* fresh computation over the fragments in the store returns; a cached text is
\* never served after storeFragment has changed the fragments
C24_CacheCoherentWithStore ==
  JustReconstructed => ret.result = FreshResult

----------------------------------------------------------------------------
(* C25: the fragment just stored.                                          *)

\* C25: with a region cap of at least 1, the fragment storeFragment has just
\* inserted is in the store when the call returns, also when fragments of the
\* region carry the same timestamp
C25_NewestInsertionSurvives ==
  (ret.op = "storeFragment" /\ config.maxFragmentsPerRegion >= 1)
    => ret.id \in Ids(fragments)

----------------------------------------------------------------------------
(* C26: the amplitudes of the active signals.                              *)

\* C26 as stated: every signal in the active set has an amplitude of at least
\* 0.1, whatever amplitude propagateHolographicWave was given.
C26_ActiveAtLeastThreshold ==
  \A i \in 1..Len(activeWaves) : activeWaves[i].amplitude * 10 >= Unit

\* C26: when updateWaveDecay returns, every signal in the active set has an
\* amplitude of at least 0.1; a signal propagated with a smaller amplitude is
\* active, and scored, until the next updateWaveDecay.
C26_ActiveAtLeastThresholdAfterDecay ==
  ret.op = "updateWaveDecay" => C26_ActiveAtLeastThreshold

\* updateWaveDecay has removed a signal that was propagated with an amplitude
\* below 0.1 and has kept another
C26_Witness ==
  /\ ret.op = "updateWaveDecay"
  /\ activeWaves # <<>>
  /\ \E i \in 1..Len(ret.before) :
       /\ ret.before[i].amplitude * 10 < Unit
       /\ ret.before[i].id \notin Ids(activeWaves)

----------------------------------------------------------------------------
(* C27: the insights of a pair of signals.                                 *)

\* the pairs of signals of the emergent patterns of the call in ret
EmergentPairs ==
  {ret.emergentPatterns[k].triggerPattern : k \in 1..Len(ret.emergentPatterns)}

\* C27 as stated: a propagateHolographicWave call has emergent patterns, and
\* so stores insight fragments, only for pairs that involve the signal it
\* propagates; a pair contributes its insight once.
C27_InsightsOnlyForPairsOfNewSignal ==
  ret.op = "propagateHolographicWave" =>
    \A pair \in EmergentPairs : ret.id \in {pair[1], pair[2]}

\* C27: a propagateHolographicWave call has at most one emergent pattern, and
\* so stores at most one insight fragment, for each pair of signals active in
\* that call, the pairs of earlier signals included: a pair contributes an
\* insight at every call made while it is active and emergent.
C27_OneInsightPerPairPerCall ==
  ret.op = "propagateHolographicWave" =>
    /\ Cardinality(EmergentPairs) = Len(ret.emergentPatterns)
    /\ \A pair \in EmergentPairs :
         \E i, j \in 1..Len(ret.currentWaves) :
           i < j /\ pair = <<ret.currentWaves[i].id, ret.currentWaves[j].id>>
    /\ ret.emergentPatterns
         = processWaveInterference(ret.currentWaves, config, ret.at).emergentPatterns

\* a call has an emergent pattern for a pair of signals propagated by earlier
\* calls, next to one for a pair with the signal it propagates
C27_Witness ==
  /\ ret.op = "propagateHolographicWave"
  /\ \E pair \in EmergentPairs : ret.id \notin {pair[1], pair[2]}
  /\ \E pair \in EmergentPairs : ret.id \in {pair[1], pair[2]}

----------------------------------------------------------------------------
(* C28: the region cap.                                                    *)

\* the regions of the fragments in the store
Regions == {fragments[i].sourceRegion : i \in 1..Len(fragments)}

\* C28: in every state of a store, also right after it is constructed and has
\* loaded the persisted fragments, every region holds at most
\* config.memory.maxFragmentsPerRegion fragments
C28_RegionsWithinCap ==
  \A region \in Regions :
    Len(getFragmentsByRegion(fragments, region)) <= config.maxFragmentsPerRegion

----------------------------------------------------------------------------
(* C29: decay ticks bound the lifetime of the signals.                     *)

\* getSystemState on an engine without active signals reports 0 active
\* signals, 0 patterns and a system coherence of 0.5
EmptyReported ==
  (ret.op = "getSystemState" /\ activeWaves = <<>>) =>
    /\ ret.result.activeWaves = 0
    /\ ret.result.interferencePatterns = 0
    /\ ret.result.systemCoherence = Unit \div 2

\* C29: when updateWaveDecay keeps being called with a fixed deltaTime > 0 and
\* the propagateHolographicWave calls have come to an end, every active signal
\* is removed in the end and the active set becomes and stays empty; from then
\* on getSystemState reports 0 active signals, 0 patterns and systemCoherence 0.5
C29_DecayEmptiesActiveSet ==
  /\ <>[](activeWaves = <<>>)
  /\ [](EmptyReported)

\* getSystemState is called after all the signals of a full series have decayed
\* away
C29_Witness ==
  /\ ret.op = "getSystemState"
  /\ nextId = MaxSeries
  /\ activeWaves = <<>>

----------------------------------------------------------------------------
(* C30: getSystemState as a query.                                         *)

\* the step is a call of getSystemState
SystemStateRead == ret'.op = "getSystemState" /\ now' = now

\* C30: getSystemState leaves the active signals, the fragment store and the
\* cached collections of the InterferenceEngine as they are: a call that
\* follows another returns the same snapshot, and getActivePatterns and
\* getEmergentBehaviors return after the call what they returned before it
C30_GetSystemStateReadOnly ==
  [][SystemStateRead =>
       /\ activeWaves' = activeWaves
       /\ fragments' = fragments
       /\ ret.op = "getSystemState" => ret'.result = ret.result
       /\ getActivePatterns(activePatterns') = getActivePatterns(activePatterns)
       /\ getEmergentBehaviors(emergentBehaviors') = getEmergentBehaviors(emergentBehaviors)]_vars

====
